---- MODULE Spec2Model ----
(***************************************************************************)
(* The run executor of uap: AbstractStep.run (include/abstract_step.py),   *)
(* the driver that takes one run through pre-flight, heartbeat, execution  *)
(* of the exec groups, the post-run integrity check, hashing, publish,     *)
(* annotation and teardown, together with the signals that may reach it.   *)
(*                                                                         *)
(* Every driver is an OS process of its own; drivers share only the files  *)
(* of the step's output directory (ping files, outputs, placeholders,      *)
(* annotation, temp directories).                                          *)
(***************************************************************************)
EXTENDS Integers, Sequences, FiniteSets, TLC

\* ---------------------------------------------------------------- bounds
NumOutputs == 2     \* entries of run.get_output_files(), in dict order
NumGroups == 2      \* exec groups of the run
NumMembers == 2     \* pipes-or-commands per exec group
MaxSignals == 2     \* signals delivered to one driver
MaxIdLen == 2       \* characters of a run id given to declare_run
MaxRuns == 3        \* runs declared in one step

Drivers == {1, 2}
Outputs == 1..NumOutputs
Signals == {"SIGTERM", "SIGINT"}

\* owner written into the executing ping; Absent: no such file
Absent == 0
Foreign == 3

VARIABLES
    cfg,      \* the run as declared, and the process's settings
    pings,    \* .<run_id>.queued.yaml / .executing.yaml and their copies
    files,    \* output_dir: outputs, placeholders, temp dirs, annotation
    drv,      \* per driver process: position and local variables of run()
    step_runs,  \* AbstractStep._runs: run id -> Run
    pipeline,   \* the pipeline's file_dependencies and task indexes
    resolver,   \* locals of get_run_ids_in_connections_input_files
    options,    \* AbstractStep._options: _BREAK, _connect
    call,       \* outcome of the last call of declare_run / get_runs
    step        \* AbstractStep: declared options, connections, tools

runVars == <<cfg, pings, files, drv>>
buildVars == <<step_runs, pipeline, resolver, options, call, step>>
vars == <<cfg, pings, files, drv, step_runs, pipeline, resolver, options,
          call, step>>

\* ------------------------------------------------------------ positions
PreflightPcs == {"start", "read_queued", "mk_temp", "known_paths", "write_ping"}
ArmPcs == {"fork", "install_term", "install_int", "pre_try"}
ExecPcs == {"pool_enter", "launch", "pool_exit"}
FinallyPcs == {"finally_term", "finally_int", "finally_rest"}
HashTryPcs == {"hash_arm_term", "hash_arm_int", "hash_pool", "hash_iter"}
HashArmedPcs == {"hash_arm_int", "hash_pool", "hash_iter", "hash_except",
                 "hash_else", "hash_restore_term", "hash_restore_int"}
HandlerPcs == {"h_kill_ping", "h_queued", "h_flag", "h_pool", "h_raise"}
TerminalPcs == {"returned", "raised", "killed", "off"}

\* the try statement that encloses a position of run()
Region(pc) ==
    CASE pc \in ExecPcs -> "exec_try"
      [] pc = "except" -> "except"
      [] pc = "check" -> "check_try"
      [] pc \in HashTryPcs -> "hash_try"
      [] pc = "rename" -> "rename_try"
      [] OTHER -> "none"

\* the code a running handler has interrupted
Interrupted(r) == IF r.pc \in HandlerPcs THEN r.ret ELSE r.pc

\* An exception k raised at the driver's position: where control goes.
Raise(r, k) ==
    LET reg == Region(Interrupted(r)) IN
    CASE reg = "exec_try" -> [r EXCEPT !.pc = "except", !.exc = k]
      [] reg = "except" -> [r EXCEPT !.pc = "finally_term", !.exc = k]
      [] reg = "check_try" ->
            [r EXCEPT !.pc = "hash_begin", !.caught_exception = k]
      [] reg = "hash_try" -> [r EXCEPT !.pc = "hash_except", !.exc = k]
      [] reg = "rename_try" ->
            [r EXCEPT !.pc = "annot", !.caught_exception = k]
      [] OTHER -> [r EXCEPT !.pc = "raised", !.exc = k,
                            !.raisedAt = Interrupted(r)]

\* ------------------------------------------------------------ ping files
\* remove_ping_file(ping_path, bad_copy): backup is args.debugging
remove_ping_file(p, path, bad_copy, backup) ==
    IF path = "executing"
    THEN IF p.executing # Absent
         THEN IF bad_copy
              THEN [p EXCEPT !.executing = Absent, !.executingBad = TRUE,
                             !.executingDated = @ \/ backup]
              ELSE IF backup
                   THEN [p EXCEPT !.executing = Absent,
                                  !.executingDated = TRUE]
                   ELSE [p EXCEPT !.executing = Absent]
         ELSE p
    ELSE IF p.queued
         THEN IF bad_copy
              THEN [p EXCEPT !.queued = FALSE, !.queuedBad = TRUE,
                             !.queuedDated = @ \/ backup]
              ELSE IF backup
                   THEN [p EXCEPT !.queued = FALSE, !.queuedDated = TRUE]
                   ELSE [p EXCEPT !.queued = FALSE]
         ELSE p

\* ------------------------------------------------------------------ Init
NoAnnotation == [exists |-> FALSE, error |-> "none", sha256 |-> {}, by |-> 0]

InitDriver ==
    [pc |-> "start", ret |-> "start", job_id |-> FALSE,
     known_paths |-> {}, to_be_moved |-> {}, sha256 |-> {},
     caught_exception |-> "none", caught_signal |-> "None",
     exc |-> "none", raisedAt |-> "none",
     term_handler |-> "orig", int_handler |-> "orig",
     original_term_handler |-> "orig", original_int_handler |-> "orig",
     hsig |-> "None", handlerRuns |-> 0, nsig |-> 0, gotTerm |-> FALSE,
     executing_ping_pid |-> "none", state |-> "DEFAULT", cwd |-> "base",
     grp |-> 0, mem |-> 0, live |-> {}, poolDead |-> FALSE, failed |-> FALSE,
     temp |-> {}, idx |-> 0, pool |-> "none", moved |-> {},
     run_known_sha256 |-> {}, error |-> "none", unlinked |-> {}]

OffDriver == [InitDriver EXCEPT !.pc = "off"]

InitPings(q, e) ==
    [queued |-> q, queuedBad |-> FALSE, queuedDated |-> FALSE,
     executing |-> e, executingBad |-> FALSE, executingDated |-> FALSE]

\* volatile: the outputs whose placeholder path
\* <output>.volatile.placeholder.yaml nobody has looked at yet; whether a
\* placeholder is there is settled by the first os.path.exists on it
\* (nothing before the integrity check reads or writes these paths).
InitFiles(decl) ==
    [outdir |-> {}, volatile |-> decl, tempDirs |-> {},
     annotation |-> NoAnnotation]

\* nothing of the run builder is in use while a run executes
NoRuns == [k \in {} |-> 0]
NoPipeline == [file_dependencies |-> NoRuns, task_id_for_output_file |-> NoRuns,
               task_ids_for_input_file |-> NoRuns]
NoCall == [result |-> "none", run_id |-> <<>>, pending |-> {}]
NoOptions == [BREAK |-> FALSE, connect |-> NoRuns]
NoStep == [defined_options |-> NoRuns, connections |-> {},
           optional_connections |-> {}, needs_parents |-> FALSE,
           tools |-> NoRuns, pre_command |-> NoRuns, post_command |-> NoRuns,
           module_load |-> NoRuns, module_unload |-> NoRuns]
IdleBuild ==
    /\ step_runs = NoRuns
    /\ pipeline = NoPipeline
    /\ resolver = [pc |-> "idle"]
    /\ options = NoOptions
    /\ call = NoCall
    /\ step = NoStep

Init ==
    /\ \E of \in [Outputs -> {"file", "none"}], dbg \in BOOLEAN,
          q \in BOOLEAN :
         cfg = [output_files |-> of, debugging |-> dbg, queued0 |-> q,
                stamp |-> [d \in Drivers |-> d]]
    /\ \E e \in {Absent, Foreign} : pings = InitPings(cfg.queued0, e)
    /\ files = InitFiles({o \in Outputs : cfg.output_files[o] = "file"})
    /\ drv = [d \in Drivers |-> IF d = 1 THEN InitDriver ELSE OffDriver]
    /\ IdleBuild

\* ------------------------------------------------------------ pre-flight
Declared == {o \in Outputs : cfg.output_files[o] = "file"}

Preflight_NoCheck(d) ==
    /\ drv[d].pc = "start"
    /\ drv' = [drv EXCEPT ![d].pc = "read_queued"]
    /\ UNCHANGED <<cfg, pings, files>>
    /\ UNCHANGED buildVars

Preflight(d) ==
    /\ drv[d].pc = "start"
    /\ drv' = [drv EXCEPT ![d] =
                 IF pings.executing # Absent
                 THEN Raise(@, "already_running")
                 ELSE [@ EXCEPT !.pc = "read_queued"]]
    /\ UNCHANGED <<cfg, pings, files>>
    /\ UNCHANGED buildVars

ReadQueuedPing(d) ==
    /\ drv[d].pc = "read_queued"
    /\ drv' = [drv EXCEPT ![d].pc = "mk_temp", ![d].job_id = pings.queued]
    /\ UNCHANGED <<cfg, pings, files>>
    /\ UNCHANGED buildVars

\* run.get_temp_output_directory(): temp-<run_id>-<timestamp>
get_temp_output_directory(d) == cfg.stamp[d]

MakeTempDirectory(d) ==
    /\ drv[d].pc = "mk_temp"
    /\ IF get_temp_output_directory(d) \in files.tempDirs
       THEN /\ drv' = [drv EXCEPT ![d] = Raise(@, "FileExistsError")]
            /\ UNCHANGED files
       ELSE /\ files' = [files EXCEPT !.tempDirs = @ \cup {get_temp_output_directory(d)}]
            /\ drv' = [drv EXCEPT ![d].pc = "known_paths"]
    /\ UNCHANGED <<cfg, pings>>
    /\ UNCHANGED buildVars

PrepareKnownPaths(d) ==
    /\ drv[d].pc = "known_paths"
    /\ drv' = [drv EXCEPT ![d].pc = "write_ping",
                          ![d].known_paths = Declared]
    /\ UNCHANGED <<cfg, pings, files>>
    /\ UNCHANGED buildVars

WriteExecutingPing(d) ==
    /\ drv[d].pc = "write_ping"
    /\ pings' = [pings EXCEPT !.executing = d]
    /\ drv' = [drv EXCEPT ![d].pc = "fork"]
    /\ UNCHANGED <<cfg, files>>
    /\ UNCHANGED buildVars

\* ------------------------------------------------- heartbeat and handlers
ForkHeartbeat(d) ==
    /\ drv[d].pc = "fork"
    /\ drv' = [drv EXCEPT ![d].pc = "install_term",
                          ![d].executing_ping_pid = "alive"]
    /\ UNCHANGED <<cfg, pings, files>>
    /\ UNCHANGED buildVars

\* kill_exec_ping(): SIGTERM to the heartbeat worker, waitpid, then the
\* executing ping is removed (never as a .bad copy).
kill_exec_ping_reaped(r) ==
    IF r.executing_ping_pid = "alive"
    THEN [r EXCEPT !.executing_ping_pid = "reaped"]
    ELSE r

kill_exec_ping_file_bad(p) == remove_ping_file(p, "executing", TRUE, cfg.debugging)

kill_exec_ping_file(p) == remove_ping_file(p, "executing", FALSE, cfg.debugging)

InstallTermHandler(d) ==
    /\ drv[d].pc = "install_term"
    /\ drv' = [drv EXCEPT ![d].pc = "install_int",
                          ![d].original_term_handler = drv[d].term_handler,
                          ![d].term_handler = "ping_on"]
    /\ UNCHANGED <<cfg, pings, files>>
    /\ UNCHANGED buildVars

InstallIntHandler(d) ==
    /\ drv[d].pc = "install_int"
    /\ drv' = [drv EXCEPT ![d].pc = "pre_try",
                          ![d].original_int_handler = drv[d].int_handler,
                          ![d].int_handler = "ping_on"]
    /\ UNCHANGED <<cfg, pings, files>>
    /\ UNCHANGED buildVars

\* ProcessPool.kill(): every live child is signalled and reaped.
ProcessPool_kill(r) == [r EXCEPT !.live = {}, !.poolDead = TRUE]

UAPErrorOf(sig) == IF sig = "SIGTERM" THEN "UAPError_TERM" ELSE "UAPError_INT"
SignalErrorOf(sig) ==
    IF sig = "SIGTERM" THEN "SignalError_TERM" ELSE "SignalError_INT"
SignumOf(k) ==
    CASE k = "SignalError_TERM" -> "SIGTERM"
      [] k = "SignalError_INT" -> "SIGINT"
      [] OTHER -> "None"

\* the order of the statements of ping_on_term / ping_on_int
HandlerNext_flagFirst(pc) ==
    CASE pc = "h_flag" -> "h_kill_ping"
      [] pc = "h_kill_ping" -> "h_queued"
      [] pc = "h_queued" -> "h_pool"
      [] pc = "h_pool" -> "h_raise"
      [] OTHER -> "h_raise"

HandlerNext(pc) ==
    CASE pc = "h_kill_ping" -> "h_queued"
      [] pc = "h_queued" -> "h_flag"
      [] pc = "h_flag" -> "h_pool"
      [] pc = "h_pool" -> "h_raise"
      [] OTHER -> "h_raise"

\* ping_on_term / ping_on_int, one statement per step
ping_on_signal(d) ==
    /\ drv[d].pc \in HandlerPcs
    /\ LET r == drv[d]
           n == HandlerNext(r.pc) IN
       CASE r.pc = "h_kill_ping" ->
              /\ drv' = [drv EXCEPT ![d] =
                           [kill_exec_ping_reaped(r) EXCEPT !.pc = n]]
              /\ pings' = kill_exec_ping_file(pings)
         [] r.pc = "h_queued" ->
              /\ drv' = [drv EXCEPT ![d].pc = n]
              /\ pings' = remove_ping_file(pings, "queued", TRUE,
                                           cfg.debugging)
         [] r.pc = "h_flag" ->
              /\ drv' = [drv EXCEPT ![d].pc = n,
                                    ![d].caught_signal = r.hsig]
              /\ UNCHANGED pings
         [] r.pc = "h_pool" ->
              /\ drv' = [drv EXCEPT ![d] =
                           [ProcessPool_kill(r) EXCEPT !.pc = n]]
              /\ UNCHANGED pings
         [] OTHER ->
              /\ drv' = [drv EXCEPT ![d] = Raise(r, UAPErrorOf(r.hsig))]
              /\ UNCHANGED pings
    /\ UNCHANGED <<cfg, files>>
    /\ UNCHANGED buildVars

\* positions of steps (2)-(6): from arming the heartbeat to the last rename
WindowPcs ==
    {"write_ping"} \cup ArmPcs \cup ExecPcs \cup {"except"} \cup FinallyPcs
    \cup {"post_exec", "check", "hash_begin"} \cup HashTryPcs
    \cup {"hash_except", "hash_else", "hash_restore_term",
          "hash_restore_int", "add_known", "rename"}

HandlerFor(r, sig) == IF sig = "SIGTERM" THEN r.term_handler ELSE r.int_handler

\* A signal reaches the driver process: the installed handler decides.
\* "orig" is the disposition run() found: SIGTERM ends the process,
\* SIGINT raises KeyboardInterrupt.
Deliver(r, sig) ==
    LET r1 == [r EXCEPT !.nsig = @ + 1,
                        !.gotTerm = @ \/ (sig = "SIGTERM"
                                          /\ Interrupted(r) \in WindowPcs)]
        h == HandlerFor(r, sig) IN
    CASE h = "ping_on" ->
            [r1 EXCEPT !.ret = Interrupted(r), !.pc = "h_kill_ping",
                       !.hsig = sig, !.handlerRuns = @ + 1]
      [] h = "stop" -> Raise(r1, SignalErrorOf(sig))
      [] OTHER ->
            IF sig = "SIGTERM"
            THEN [r1 EXCEPT !.pc = "killed", !.raisedAt = Interrupted(r)]
            ELSE Raise(r1, "KeyboardInterrupt")

Signal(d) ==
    /\ drv[d].pc \notin TerminalPcs
    /\ drv[d].nsig < MaxSignals
    /\ \E sig \in Signals : drv' = [drv EXCEPT ![d] = Deliver(@, sig)]
    /\ UNCHANGED <<cfg, pings, files>>
    /\ UNCHANGED buildVars

\* ------------------------------------------------------------- execution
EnterTry(d) ==
    /\ drv[d].pc = "pre_try"
    /\ drv' = [drv EXCEPT ![d].pc = "pool_enter", ![d].grp = 1,
                          ![d].state = "EXECUTING", ![d].cwd = "temp"]
    /\ UNCHANGED <<cfg, pings, files>>
    /\ UNCHANGED buildVars

\* with process_pool.ProcessPool(run) as pool:
PoolEnter(d) ==
    /\ drv[d].pc = "pool_enter"
    /\ drv' = [drv EXCEPT ![d].pc = "launch", ![d].mem = 1]
    /\ UNCHANGED <<cfg, pings, files>>
    /\ UNCHANGED buildVars

\* after the last pipe-or-command of a group the with block is left
AfterLaunch_noClose(r) ==
    IF r.mem < NumMembers THEN [r EXCEPT !.mem = @ + 1]
    ELSE IF r.grp < NumGroups THEN [r EXCEPT !.grp = @ + 1, !.mem = 1]
         ELSE [r EXCEPT !.pc = "pool_exit"]

AfterLaunch(r) ==
    IF r.mem < NumMembers THEN [r EXCEPT !.mem = @ + 1]
    ELSE [r EXCEPT !.pc = "pool_exit"]

\* pool.launch(...) / pipeline.append(...) for entry mem of group grp
Launch(d) ==
    /\ drv[d].pc = "launch"
    /\ LET r == drv[d] IN
       drv' = [drv EXCEPT ![d] =
                 AfterLaunch([r EXCEPT !.live = @ \cup {<<r.grp, r.mem>>}])]
    /\ UNCHANGED <<cfg, pings, files>>
    /\ UNCHANGED buildVars

\* a child process ends; it may have written files to temp_dir: declared
\* outputs, and files the integrity check passes over (an entry that is
\* None or names a path with '/')
ProcExit(d) ==
    /\ \E p \in drv[d].live, ok \in BOOLEAN, w \in SUBSET Outputs :
         drv' = [drv EXCEPT ![d].live = @ \ {p},
                            ![d].failed = @ \/ ~ok,
                            ![d].temp = @ \cup w]
    /\ UNCHANGED <<cfg, pings, files>>
    /\ UNCHANGED buildVars

\* ProcessPool.__exit__: all children of the pool have been reaped
PoolClosed(r) == r.live = {}

PoolExit(d) ==
    /\ drv[d].pc = "pool_exit"
    /\ PoolClosed(drv[d])
    /\ LET r == drv[d] IN
       drv' = [drv EXCEPT ![d] =
                 IF r.failed THEN Raise(r, "exec_failed")
                 ELSE IF r.grp < NumGroups
                      THEN [r EXCEPT !.pc = "pool_enter", !.grp = @ + 1]
                      ELSE [r EXCEPT !.pc = "finally_term"]]
    /\ UNCHANGED <<cfg, pings, files>>
    /\ UNCHANGED buildVars

ExceptBlock(d) ==
    /\ drv[d].pc = "except"
    /\ LET r == ProcessPool_kill(drv[d]) IN
       drv' = [drv EXCEPT ![d] =
                 [r EXCEPT !.pc = "finally_term",
                           !.caught_exception = r.exc, !.exc = "none"]]
    /\ UNCHANGED <<cfg, pings, files>>
    /\ UNCHANGED buildVars

FinallyBlock(d) ==
    /\ drv[d].pc \in FinallyPcs
    /\ LET r == drv[d] IN
       drv' = [drv EXCEPT ![d] =
          CASE r.pc = "finally_term" ->
                 [r EXCEPT !.pc = "finally_int",
                           !.term_handler = r.original_term_handler]
            [] r.pc = "finally_int" ->
                 [r EXCEPT !.pc = "finally_rest",
                           !.int_handler = r.original_int_handler]
            [] OTHER ->
                 IF r.exc # "none"
                 THEN [r EXCEPT !.pc = "raised", !.raisedAt = "except",
                                !.state = "DEFAULT", !.cwd = "base"]
                 ELSE [r EXCEPT !.pc = "post_exec",
                                !.state = "DEFAULT", !.cwd = "base"]]
    /\ UNCHANGED <<cfg, pings, files>>
    /\ UNCHANGED buildVars

\* ------------------------------------------------ post-run integrity
ExecSucceeded_ignoreException(r) == r.caught_signal = "None"

\* if not p.caught_signal and not caught_exception
ExecSucceeded(r) == r.caught_signal = "None" /\ r.caught_exception = "none"

PostExec(d) ==
    /\ drv[d].pc = "post_exec"
    /\ LET r == drv[d] IN
       drv' = [drv EXCEPT ![d] =
                 IF ExecSucceeded(r)
                 THEN [r EXCEPT !.pc = "check", !.idx = 1, !.to_be_moved = {}]
                 ELSE [r EXCEPT !.pc = "hash_begin", !.to_be_moved = {}]]
    /\ UNCHANGED <<cfg, pings, files>>
    /\ UNCHANGED buildVars

AfterCheck(r) ==
    IF r.idx < NumOutputs
    THEN [r EXCEPT !.idx = @ + 1]
    ELSE [r EXCEPT !.pc = "hash_begin"]

\* one pass of the loop over run.get_output_files(), for entry idx
CheckOutput_ignoreMissing(d) ==
    /\ drv[d].pc = "check"
    /\ LET r == drv[d]
           o == r.idx IN
       /\ drv' = [drv EXCEPT ![d] =
                    IF o \in r.temp /\ cfg.output_files[o] = "file"
                    THEN AfterCheck([r EXCEPT !.to_be_moved = @ \cup {o}])
                    ELSE AfterCheck(r)]
       /\ files' = [files EXCEPT !.volatile = @ \ {o}]
    /\ UNCHANGED <<cfg, pings>>
    /\ UNCHANGED buildVars

CheckOutput(d) ==
    /\ drv[d].pc = "check"
    /\ LET r == drv[d]
           o == r.idx IN
       IF cfg.output_files[o] = "none"
       THEN /\ drv' = [drv EXCEPT ![d] = AfterCheck(r)]
            /\ UNCHANGED files
       ELSE \E placeholder \in {p \in BOOLEAN : p => o \in files.volatile} :
            LET r1 == IF placeholder
                      THEN [r EXCEPT !.unlinked = @ \cup {o}] ELSE r IN
            /\ files' = [files EXCEPT !.volatile = @ \ {o}]
            /\ drv' = [drv EXCEPT ![d] =
                  IF o \in r.temp
                  THEN IF o \in r.known_paths
                       THEN AfterCheck([r1 EXCEPT !.to_be_moved = @ \cup {o}])
                       ELSE Raise(r1, "KeyError")
                  ELSE Raise(r1, "missing_output")]
    /\ UNCHANGED <<cfg, pings>>
    /\ UNCHANGED buildVars

\* ---------------------------------------------------------------- hashing
HashBegin(d) ==
    /\ drv[d].pc = "hash_begin"
    /\ LET r == drv[d] IN
       drv' = [drv EXCEPT ![d].pc =
                 IF r.caught_exception = "none" /\ r.to_be_moved # {}
                 THEN "hash_arm_term" ELSE "add_known"]
    /\ UNCHANGED <<cfg, pings, files>>
    /\ UNCHANGED buildVars

HashArm(d) ==
    /\ drv[d].pc \in {"hash_arm_term", "hash_arm_int", "hash_pool"}
    /\ LET r == drv[d] IN
       drv' = [drv EXCEPT ![d] =
          CASE r.pc = "hash_arm_term" ->
                 [r EXCEPT !.pc = "hash_arm_int",
                           !.original_term_handler = r.term_handler,
                           !.term_handler = "stop"]
            [] r.pc = "hash_arm_int" ->
                 [r EXCEPT !.pc = "hash_pool",
                           !.original_int_handler = r.int_handler,
                           !.int_handler = "stop"]
            [] OTHER -> [r EXCEPT !.pc = "hash_iter", !.pool = "open"]]
    /\ UNCHANGED <<cfg, pings, files>>
    /\ UNCHANGED buildVars

Min(S) == CHOOSE x \in S : \A y \in S : x <= y

\* for i, (hashsum, path) in enumerate(file_iter)
HashIter(d) ==
    /\ drv[d].pc = "hash_iter"
    /\ LET r == drv[d]
           rest == r.to_be_moved \ r.sha256 IN
       IF rest = {}
       THEN drv' = [drv EXCEPT ![d].pc = "hash_else"]
       ELSE \E ok \in BOOLEAN :
              drv' = [drv EXCEPT ![d] =
                        IF ok THEN [r EXCEPT !.sha256 = @ \cup {Min(rest)}]
                        ELSE Raise(r, "hash_failed")]
    /\ UNCHANGED <<cfg, pings, files>>
    /\ UNCHANGED buildVars

HashExcept(d) ==
    /\ drv[d].pc = "hash_except"
    /\ LET r == drv[d] IN
       drv' = [drv EXCEPT ![d] =
                 [r EXCEPT !.pc = "hash_restore_term",
                           !.caught_exception = r.exc, !.exc = "none",
                           !.caught_signal =
                               IF SignumOf(r.exc) # "None"
                               THEN SignumOf(r.exc) ELSE @,
                           !.pool = IF @ = "open" THEN "terminated" ELSE @]]
    /\ UNCHANGED <<cfg, pings, files>>
    /\ UNCHANGED buildVars

HashElse(d) ==
    /\ drv[d].pc = "hash_else"
    /\ drv' = [drv EXCEPT ![d].pc = "hash_restore_term",
                          ![d].pool = "closed"]
    /\ UNCHANGED <<cfg, pings, files>>
    /\ UNCHANGED buildVars

HashRestore(d) ==
    /\ drv[d].pc \in {"hash_restore_term", "hash_restore_int"}
    /\ LET r == drv[d] IN
       drv' = [drv EXCEPT ![d] =
          IF r.pc = "hash_restore_term"
          THEN [r EXCEPT !.pc = "hash_restore_int",
                         !.term_handler = r.original_term_handler]
          ELSE [r EXCEPT !.pc = "add_known",
                         !.int_handler = r.original_int_handler]]
    /\ UNCHANGED <<cfg, pings, files>>
    /\ UNCHANGED buildVars

\* ---------------------------------------------------------------- publish
PublishAllowed_ignoreErrors(r) == TRUE

PublishAllowed(r) == r.caught_signal = "None" /\ r.caught_exception = "none"

AddKnownPaths(d) ==
    /\ drv[d].pc = "add_known"
    /\ LET r == drv[d] IN
       drv' = [drv EXCEPT ![d] =
                 [r EXCEPT !.run_known_sha256 = r.sha256,
                           !.pc = IF PublishAllowed(r)
                                  THEN "rename" ELSE "annot"]]
    /\ UNCHANGED <<cfg, pings, files>>
    /\ UNCHANGED buildVars

\* for source_path, new_path in to_be_moved.items(): os.rename(...)
RenameOutput(d) ==
    /\ drv[d].pc = "rename"
    /\ LET r == drv[d]
           rest == r.to_be_moved \ r.moved IN
       IF rest = {}
       THEN /\ drv' = [drv EXCEPT ![d].pc = "annot"]
            /\ UNCHANGED files
       ELSE \E ok \in BOOLEAN :
              IF ok
              THEN /\ drv' = [drv EXCEPT ![d].moved = @ \cup {Min(rest)},
                                         ![d].temp = @ \ {Min(rest)}]
                   /\ files' = [files EXCEPT !.outdir = @ \cup {Min(rest)}]
              ELSE /\ drv' = [drv EXCEPT ![d] = Raise(r, "rename_failed")]
                   /\ UNCHANGED files
    /\ UNCHANGED <<cfg, pings>>
    /\ UNCHANGED buildVars

\* ------------------------------------------------- annotation, teardown
ErrorText(r) ==
    IF r.caught_signal # "None"
    THEN IF r.caught_signal = "SIGTERM" THEN "caught_SIGTERM"
         ELSE "caught_SIGINT"
    ELSE r.caught_exception

WriteAnnotation(d) ==
    /\ drv[d].pc = "annot"
    /\ LET r == drv[d] IN
       /\ files' = [files EXCEPT !.annotation =
                      [exists |-> TRUE, error |-> ErrorText(r),
                       sha256 |-> r.run_known_sha256, by |-> d]]
       /\ drv' = [drv EXCEPT ![d].pc = "kill_ping",
                             ![d].error = ErrorText(r)]
    /\ UNCHANGED <<cfg, pings>>
    /\ UNCHANGED buildVars

KillExecPing(d) ==
    /\ drv[d].pc = "kill_ping"
    /\ LET r == kill_exec_ping_reaped(drv[d]) IN
       drv' = [drv EXCEPT ![d] =
                 [r EXCEPT !.state = "DEFAULT",
                           !.pc = IF r.error # "none"
                                  THEN "bad_queued" ELSE "rmdir"]]
    /\ pings' = kill_exec_ping_file(pings)
    /\ UNCHANGED <<cfg, files>>
    /\ UNCHANGED buildVars

\* a teardown that clears the temp directory of a failed run
FailedTeardown_cleans(d) ==
    /\ drv[d].pc = "bad_queued"
    /\ pings' = remove_ping_file(pings, "queued", TRUE, cfg.debugging)
    /\ files' = [files EXCEPT !.tempDirs = @ \ {get_temp_output_directory(d)}]
    /\ LET r == [drv[d] EXCEPT !.temp = {}] IN
       drv' = [drv EXCEPT ![d] =
                 IF r.caught_exception # "none"
                 THEN [r EXCEPT !.pc = "raised", !.exc = r.caught_exception,
                                !.raisedAt = "reraise"]
                 ELSE [r EXCEPT !.pc = "pool_join"]]
    /\ UNCHANGED cfg
    /\ UNCHANGED buildVars

\* if error: ... remove_ping_file(queued_ping_path, bad_copy=True); raise
FailedTeardown(d) ==
    /\ drv[d].pc = "bad_queued"
    /\ pings' = remove_ping_file(pings, "queued", TRUE, cfg.debugging)
    /\ LET r == drv[d] IN
       drv' = [drv EXCEPT ![d] =
                 IF r.caught_exception # "none"
                 THEN [r EXCEPT !.pc = "raised", !.exc = r.caught_exception,
                                !.raisedAt = "reraise"]
                 ELSE [r EXCEPT !.pc = "pool_join"]]
    /\ UNCHANGED <<cfg, files>>
    /\ UNCHANGED buildVars

\* else: os.rmdir(temp_directory) ... remove_ping_file(queued_ping_path)
RemoveTempDirectory(d) ==
    /\ drv[d].pc = "rmdir"
    /\ files' = [files EXCEPT !.tempDirs =
                   IF drv[d].temp = {} THEN @ \ {get_temp_output_directory(d)} ELSE @]
    /\ drv' = [drv EXCEPT ![d].pc = "ok_queued"]
    /\ UNCHANGED <<cfg, pings>>
    /\ UNCHANGED buildVars

SuccessTeardown(d) ==
    /\ drv[d].pc = "ok_queued"
    /\ pings' = remove_ping_file(pings, "queued", FALSE, cfg.debugging)
    /\ drv' = [drv EXCEPT ![d].pc = "pool_join"]
    /\ UNCHANGED <<cfg, files>>
    /\ UNCHANGED buildVars

PoolJoin(d) ==
    /\ drv[d].pc = "pool_join"
    /\ drv' = [drv EXCEPT ![d].pc = "returned"]
    /\ UNCHANGED <<cfg, pings, files>>
    /\ UNCHANGED buildVars

DriverStep(d) ==
    \/ Preflight(d)
    \/ ReadQueuedPing(d)
    \/ MakeTempDirectory(d)
    \/ PrepareKnownPaths(d)
    \/ WriteExecutingPing(d)
    \/ ForkHeartbeat(d)
    \/ InstallTermHandler(d)
    \/ InstallIntHandler(d)
    \/ EnterTry(d)
    \/ PoolEnter(d)
    \/ Launch(d)
    \/ ProcExit(d)
    \/ PoolExit(d)
    \/ ExceptBlock(d)
    \/ FinallyBlock(d)
    \/ PostExec(d)
    \/ CheckOutput(d)
    \/ HashBegin(d)
    \/ HashArm(d)
    \/ HashIter(d)
    \/ HashExcept(d)
    \/ HashElse(d)
    \/ HashRestore(d)
    \/ AddKnownPaths(d)
    \/ RenameOutput(d)
    \/ WriteAnnotation(d)
    \/ KillExecPing(d)
    \/ FailedTeardown(d)
    \/ RemoveTempDirectory(d)
    \/ SuccessTeardown(d)
    \/ PoolJoin(d)

Next ==
    \/ \E d \in Drivers : DriverStep(d)
    \/ \E d \in Drivers : Signal(d) \/ ping_on_signal(d)

\* One driver executes the run; signals may reach it at any position.
Spec == Init /\ [][Next]_vars

\* Two drivers are started on the same run (no signals are sent).
InitRace ==
    /\ \E st \in [Drivers -> Drivers] :
         cfg = [output_files |->
                    [o \in Outputs |-> IF o = 1 THEN "file" ELSE "none"],
                debugging |-> FALSE, queued0 |-> TRUE, stamp |-> st]
    /\ pings = InitPings(TRUE, Absent)
    /\ files = InitFiles({1})
    /\ drv = [d \in Drivers |-> InitDriver]
    /\ IdleBuild

NextRace == \E d \in Drivers : DriverStep(d)

SpecRace == InitRace /\ [][NextRace]_vars

\* ================================================================ properties
Finished(d) == drv[d].pc \in {"returned", "raised"}
AfterPreflight(d) == drv[d].raisedAt \notin PreflightPcs
SignalErrors == {"SignalError_TERM", "SignalError_INT"}

C2_SignalSafety ==
    \A d \in Drivers :
      (drv[d].gotTerm /\ drv[d].pc \in {"returned", "raised", "killed"}) =>
        \A o \in files.outdir :
          /\ files.annotation.exists
          /\ o \in files.annotation.sha256

PastPreflight(d) ==
    drv[d].pc \in ArmPcs \cup ExecPcs \cup HandlerPcs \cup {"except"}

C4_ExclusiveExecution ==
    Cardinality({d \in Drivers : PastPreflight(d)}) <= 1

\* C5: when the executing ping exists as run() is called, run() raises
\* "already running" and has changed nothing: no temp directory, no ping
\* written or touched, no heartbeat worker, no handler, no annotation.
C5_PreflightRefusal ==
    [][\A d \in Drivers :
         /\ (drv[d].pc = "start" /\ pings.executing # Absent
               /\ drv'[d] # drv[d] /\ drv'[d].nsig = drv[d].nsig) =>
              /\ drv'[d] = [drv[d] EXCEPT !.pc = "raised",
                                          !.exc = "already_running",
                                          !.raisedAt = "start"]
              /\ pings' = pings
              /\ files' = files
         /\ drv'[d].exc = "already_running" =>
              /\ drv'[d].executing_ping_pid = "none"
              /\ drv'[d].term_handler = "orig"
              /\ drv'[d].int_handler = "orig"
              /\ files'.tempDirs = {} /\ ~files'.annotation.exists
              /\ pings'.executing # Absent
      ]_vars

C5_RefusalReached ==
    \E d \in Drivers :
      /\ drv[d].pc = "raised"
      /\ drv[d].exc = "already_running"
      /\ pings.executing = Foreign

\* C6: exec groups run in declared order, and every child of group i has
\* been reaped before anything of group i+1 is launched.
C6_GroupsSequential ==
    [][\A d \in Drivers :
         /\ \A p \in drv'[d].live : p[1] = drv'[d].grp
         /\ drv'[d].grp # drv[d].grp =>
              /\ drv'[d].grp = drv[d].grp + 1
              /\ drv[d].live = {}
      ]_vars

C6_SecondGroupLive ==
    \E d \in Drivers : <<NumGroups, 1>> \in drv[d].live

\* C7: if execution ends without error and a declared output is missing in
\* temp_dir (no signal interfering), run() raises the "announced output
\* missing" error; nothing is moved or hashed, the annotation carries the
\* error and the queued ping is renamed to .bad.
ExecEndedOk(d) ==
    /\ drv[d].grp = NumGroups
    /\ ~drv[d].failed
    /\ drv[d].caught_exception # "exec_failed"

C7_MissingOutput ==
    \A d \in Drivers :
      (Finished(d) /\ drv[d].nsig = 0 /\ ExecEndedOk(d)
         /\ \E b \in Declared : b \notin drv[d].temp \cup drv[d].moved) =>
        /\ drv[d].pc = "raised"
        /\ drv[d].exc = "missing_output"
        /\ files.outdir = {}
        /\ drv[d].sha256 = {} /\ drv[d].pool = "none"
        /\ files.annotation.exists
        /\ files.annotation.error = "missing_output"
        /\ ~pings.queued
        /\ cfg.queued0 => pings.queuedBad

C7_MissingWithOtherPresent ==
    \E d \in Drivers :
      /\ drv[d].pc = "raised"
      /\ drv[d].exc = "missing_output"
      /\ drv[d].nsig = 0
      /\ drv[d].temp # {}
      /\ pings.queuedBad

\* C8: a SIGTERM/SIGINT during the exec groups: the handler stops and
\* reaps the heartbeat and removes the executing ping, then renames the
\* queued ping to .bad, then records the signal, then kills the pool, then
\* raises; no declared output is published, and (no further signal
\* arriving) the annotation names the signal and run() raises.
CaughtWhileExecuting(d) ==
    drv[d].handlerRuns >= 1 /\ drv[d].ret \in ExecPcs

C8_CancellationDuringExecution ==
    \A d \in Drivers :
      /\ drv[d].pc \in {"h_queued", "h_flag", "h_pool", "h_raise"} =>
           /\ drv[d].executing_ping_pid # "alive"
           /\ pings.executing = Absent
      /\ drv[d].pc \in {"h_flag", "h_pool", "h_raise"} =>
           /\ ~pings.queued
           /\ cfg.queued0 => pings.queuedBad
      /\ drv[d].pc \in {"h_pool", "h_raise"} =>
           drv[d].caught_signal = drv[d].hsig
      /\ drv[d].pc = "h_raise" => drv[d].live = {} /\ drv[d].poolDead
      /\ (drv[d].pc \in {"h_kill_ping", "h_queued", "h_flag"}
            /\ CaughtWhileExecuting(d) /\ drv[d].handlerRuns = 1) =>
           drv[d].caught_signal = "None" /\ ~drv[d].poolDead
      /\ (drv[d].pc = "h_pool"
            /\ CaughtWhileExecuting(d) /\ drv[d].handlerRuns = 1) =>
           ~drv[d].poolDead
      /\ CaughtWhileExecuting(d) => files.outdir = {}
      /\ (CaughtWhileExecuting(d) /\ drv[d].nsig = 1
            /\ drv[d].pc \in TerminalPcs) =>
           /\ drv[d].pc = "raised"
           /\ drv[d].exc = UAPErrorOf(drv[d].hsig)
           /\ files.annotation.exists
           /\ files.annotation.error = ErrorText(drv[d])
           /\ drv[d].caught_signal = drv[d].hsig

C8_CancelledReached ==
    \E d \in Drivers :
      /\ drv[d].pc = "raised"
      /\ drv[d].nsig = 1
      /\ CaughtWhileExecuting(d)
      /\ drv[d].hsig = "SIGTERM"
      /\ files.annotation.error = "caught_SIGTERM"
      /\ pings.queuedBad

\* C9: a single signal while the hashing step is armed never leaves run()
\* as an uncaught exception: the annotation records the signal, the
\* executing ping is removed, the queued ping is renamed, nothing is moved.
C9_HashSignalRecoverable ==
    \A d \in Drivers :
      (drv[d].pc = "raised" /\ drv[d].nsig = 1
         /\ drv[d].exc \in SignalErrors) =>
        /\ drv[d].raisedAt = "reraise"
        /\ files.annotation.exists
        /\ files.annotation.error \in {"caught_SIGTERM", "caught_SIGINT"}
        /\ pings.executing = Absent
        /\ ~pings.queued
        /\ files.outdir = {}

\* C10: the signals are caught exactly once: a second SIGTERM/SIGINT never
\* runs the handler again.
C10_CaughtOnce == \A d \in Drivers : drv[d].handlerRuns <= 1

\* C11: every error inside a run after pre-flight (a failing command, a
\* missing output, a hashing or rename failure, a signal caught by the
\* driver's handler) is followed by an annotation with the error text
\* before run() raises; shown for at most one signal delivered.
C11_AnnotationBeforeRaise ==
    \A d \in Drivers :
      (drv[d].pc = "raised" /\ AfterPreflight(d) /\ drv[d].nsig <= 1
         /\ drv[d].exc # "KeyboardInterrupt") =>
        /\ files.annotation.exists
        /\ files.annotation.error # "none"

\* C12: once the executing ping is written, by the time run() returns or
\* raises the heartbeat worker is killed and reaped, the executing ping is
\* gone from its path, and the queued ping is removed (success) or renamed
\* to .bad (failure); shown for at most one signal delivered.
C12_TeardownOutcome ==
    \A d \in Drivers :
      (Finished(d) /\ AfterPreflight(d) /\ drv[d].nsig <= 1) =>
        /\ drv[d].executing_ping_pid # "alive"
        /\ pings.executing = Absent
        /\ ~pings.queued
        /\ (drv[d].pc = "raised" /\ cfg.queued0) => pings.queuedBad
        /\ drv[d].pc = "returned" => ~pings.queuedBad

C14_PingExistsWhileExecuting ==
    \A d \in Drivers :
      drv[d].pc \in ExecPcs => pings.executing # Absent

\* C15: the last exec group of a run is executed even when an earlier exec
\* group of the run fails.
C15_LastGroupAlwaysRuns ==
    \A d \in Drivers :
      (drv[d].raisedAt = "reraise" /\ drv[d].nsig = 0
         /\ drv[d].caught_exception = "exec_failed") =>
        drv[d].grp = NumGroups

\* ============================================================ declare_run
\* characters of a run id; " " stands for every character matched by \s
Chars == {"a", " ", "_"}
Whitespace == {" "}
RunIds == UNION {[1..n -> Chars] : n \in 1..MaxIdLen}

\* re.sub(r'\s', '_', run_id)
re_sub_nothing(run_id) == run_id

re_sub(run_id) ==
    [i \in 1..Len(run_id) |->
       IF run_id[i] \in Whitespace THEN "_" ELSE run_id[i]]

\* Run(self, run_id); declared_as remembers the call that created it
Run(run_id, raw) == [run_id |-> run_id, declared_as |-> raw]

\* self._runs[run.get_run_id()] = run
add_run(runs, run) == (run.run_id :> run) @@ runs

declare_run(raw) ==
    /\ Cardinality(DOMAIN step_runs) < MaxRuns
    /\ LET run_id == re_sub(raw) IN
       IF run_id \in DOMAIN step_runs
       THEN /\ call' = [call EXCEPT !.result = "UAPError", !.run_id = run_id]
            /\ UNCHANGED step_runs
       ELSE /\ step_runs' = add_run(step_runs, Run(run_id, raw))
            /\ call' = [call EXCEPT !.result = "Run", !.run_id = run_id]
    /\ UNCHANGED <<pipeline, resolver, options, step>>
    /\ UNCHANGED runVars

\* no run executes while the steps are being built
IdleRun ==
    /\ cfg = [output_files |-> [o \in Outputs |-> "none"], debugging |-> FALSE,
              queued0 |-> FALSE, stamp |-> [d \in Drivers |-> d]]
    /\ pings = InitPings(FALSE, Absent)
    /\ files = InitFiles({})
    /\ drv = [d \in Drivers |-> OffDriver]

InitDeclare == IdleRun /\ IdleBuild

NextDeclare == \E raw \in RunIds : declare_run(raw)

\* declare_runs() of a step calling declare_run with arbitrary ids
SpecDeclare == InitDeclare /\ [][NextDeclare]_vars

\* C20: run ids are unique within a step after whitespace normalisation:
\* every key of the run map is free of whitespace and is the normalised id
\* its run was declared with; a declaration whose normalised id exists
\* raises and leaves the run map, every earlier run included, unchanged;
\* any other declaration adds exactly its normalised id.
C20_RunIdsUnique ==
    [][/\ \A k \in DOMAIN step_runs' :
            /\ \A i \in 1..Len(k) : k[i] \notin Whitespace
            /\ Len(step_runs'[k].declared_as) = Len(k)
            /\ \A i \in 1..Len(k) :
                 \/ step_runs'[k].declared_as[i] = k[i]
                 \/ step_runs'[k].declared_as[i] \in Whitespace /\ k[i] = "_"
       /\ \A k \in DOMAIN step_runs :
            k \in DOMAIN step_runs' /\ step_runs'[k] = step_runs[k]
       /\ call'.result = "UAPError" =>
            step_runs' = step_runs /\ call'.run_id \in DOMAIN step_runs
       /\ (call'.result = "Run" /\ call' # call) =>
            /\ call'.run_id \notin DOMAIN step_runs
            /\ DOMAIN step_runs' = DOMAIN step_runs \cup {call'.run_id}
       /\ step_runs' # step_runs => call'.result = "Run"
      ]_vars

C20_DuplicateRejected ==
    /\ call.result = "UAPError"
    /\ call.run_id \in DOMAIN step_runs
    /\ step_runs[call.run_id].declared_as # call.run_id

\* =============================================================== get_runs
\* str(self) of the step being built, and one parent task with its output
StepName == "S"
ParentTask == <<"P", <<"a">>>>
ParentPaths == {<<"P", <<"a">>, "p1">>, <<"P", <<"a">>, "p2">>}
EmptyString == <<>>     \* the file name ""

\* run ids declare_runs() may declare, already normalised
DeclaredRunIds == {re_sub(raw) : raw \in {r \in RunIds : Len(r) = 1}}

\* run.get_output_files_abspath(): output directory of the run + basename
abspath(run_id, basename) == <<StepName, run_id, basename>>

\* '%s/%s' % (str(self), run_id)
task_id(run_id) == <<StepName, run_id>>

OutputFile(conn, path, inputs) ==
    [connection |-> conn, is_none |-> FALSE, output_path |-> path,
     input_paths |-> inputs]

\* run.add_empty_output_connection(): the entry None -> None
EmptyOutput(conn) ==
    [connection |-> conn, is_none |-> TRUE, output_path |-> EmptyString,
     input_paths |-> {}]

\* what one run may declare: at most one file on out/x with any inputs,
\* and on out/y a file, an empty connection, or nothing
RunOutputs(run_id) ==
    {x \cup y :
       x \in {{}} \cup {{OutputFile("out/x", abspath(run_id, "f"), i)} :
                          i \in SUBSET ParentPaths},
       y \in {{}, {EmptyOutput("out/y")},
              {OutputFile("out/y", abspath(run_id, "g"), ParentPaths)}}}

\* the pipeline before the step is built: the parent step is recorded
ParentPipeline ==
    [file_dependencies |-> [q \in ParentPaths |-> {}],
     task_id_for_output_file |-> [q \in ParentPaths |-> ParentTask],
     task_ids_for_input_file |-> (EmptyString :> {ParentTask})]

\* pipeline.add_file_dependencies(output_path, input_paths)
add_file_dependencies(pl, output_path, input_paths) ==
    [pl EXCEPT !.file_dependencies = (output_path :> input_paths) @@ @]

\* pipeline.add_task_for_output_file(output_path, task_id)
add_task_for_output_file(pl, output_path, t) ==
    [pl EXCEPT !.task_id_for_output_file = (output_path :> t) @@ @]

\* pipeline.add_task_for_input_file(input_path, task_id)
add_task_for_input_file(pl, input_path, t) ==
    LET idx == pl.task_ids_for_input_file
        old == IF input_path \in DOMAIN idx THEN idx[input_path] ELSE {}
    IN [pl EXCEPT !.task_ids_for_input_file =
                     (input_path :> (old \cup {t})) @@ idx]

RECURSIVE add_task_for_input_files(_, _, _)
add_task_for_input_files(pl, input_paths, t) ==
    IF input_paths = {} THEN pl
    ELSE LET i == CHOOSE x \in input_paths : TRUE IN
         add_task_for_input_files(add_task_for_input_file(pl, i, t),
                                  input_paths \ {i}, t)

\* "No input paths? Add empty string NOT None as file name"
IndexedInputs_noEmptyString(input_paths) == input_paths

IndexedInputs(input_paths) ==
    IF input_paths = {} THEN {EmptyString} ELSE input_paths

\* the body of the innermost loop for one output of one run
RecordOutput(pl, run_id, out) ==
    IF out.is_none THEN pl
    ELSE add_task_for_input_files(
           add_task_for_output_file(
             add_file_dependencies(pl, out.output_path, out.input_paths),
             out.output_path, task_id(run_id)),
           IndexedInputs(out.input_paths), task_id(run_id))

BreakSet_ignored(opts) == FALSE

\* '_BREAK' in self._options and self._options['_BREAK']
BreakSet(opts) == opts.BREAK

\* get_runs() up to and including declare_runs()
get_runs_enter ==
    /\ call.result \in {"none", "returned"}
    /\ IF DOMAIN step_runs # {}
       THEN /\ call' = [call EXCEPT !.result = "returned"]
            /\ UNCHANGED step_runs
       ELSE IF BreakSet(options)
       THEN /\ call' = [call EXCEPT !.result = "returned"]
            /\ UNCHANGED step_runs
       ELSE \E ids \in SUBSET DeclaredRunIds :
            \E outs \in [ids -> UNION {RunOutputs(k) : k \in DeclaredRunIds}] :
              /\ \A k \in ids : outs[k] \in RunOutputs(k)
              /\ step_runs' = [k \in ids |->
                                 [run_id |-> k, declared_as |-> k,
                                  output_files |-> outs[k]]]
              /\ call' = [call EXCEPT
                            !.result = "recording",
                            !.pending =
                               {item \in ids \X UNION {outs[j] : j \in ids} :
                                  item[2] \in outs[item[1]]}]
    /\ UNCHANGED <<pipeline, resolver, options, step>>
    /\ UNCHANGED runVars

\* one pass of the loop over runs, connections and output files
get_runs_record ==
    /\ call.result = "recording"
    /\ \E item \in call.pending :
         /\ pipeline' = RecordOutput(pipeline, item[1], item[2])
         /\ call' = [call EXCEPT !.pending = @ \ {item}]
    /\ UNCHANGED <<step_runs, resolver, options, step>>
    /\ UNCHANGED runVars

get_runs_return ==
    /\ call.result = "recording"
    /\ call.pending = {}
    /\ call' = [call EXCEPT !.result = "returned"]
    /\ UNCHANGED <<step_runs, pipeline, resolver, options, step>>
    /\ UNCHANGED runVars

InitRuns ==
    /\ IdleRun
    /\ step_runs = NoRuns
    /\ pipeline = ParentPipeline
    /\ resolver = [pc |-> "idle"]
    /\ \E b \in BOOLEAN : options = [NoOptions EXCEPT !.BREAK = b]
    /\ call = NoCall
    /\ step = NoStep

NextRuns == get_runs_enter \/ get_runs_record \/ get_runs_return

\* a step is materialised by get_runs()
SpecRuns == InitRuns /\ [][NextRuns]_vars

\* C19: after get_runs() has materialised the step, for every run and
\* every output file of it the pipeline holds the edge output_path ->
\* input_paths, maps output_path to '<step>/<run_id>', and has every input
\* path (the empty string when there is none) indexed to that task id.
C19_DependenciesRecorded ==
    call.result = "returned" =>
      \A k \in DOMAIN step_runs :
        \A o \in step_runs[k].output_files :
          ~o.is_none =>
            /\ o.output_path \in DOMAIN pipeline.file_dependencies
            /\ pipeline.file_dependencies[o.output_path] = o.input_paths
            /\ o.output_path \in DOMAIN pipeline.task_id_for_output_file
            /\ pipeline.task_id_for_output_file[o.output_path]
                 = <<StepName, k>>
            /\ o.input_paths = {} =>
                 <<StepName, k>> \in
                   pipeline.task_ids_for_input_file[EmptyString]
            /\ \A i \in o.input_paths :
                 /\ i \in DOMAIN pipeline.task_ids_for_input_file
                 /\ <<StepName, k>> \in pipeline.task_ids_for_input_file[i]

C19_TwoRunsRecorded ==
    /\ call.result = "returned"
    /\ DOMAIN step_runs = DeclaredRunIds
    /\ \E k \in DOMAIN step_runs : \E o \in step_runs[k].output_files :
         ~o.is_none /\ o.input_paths = {}
    /\ \E k \in DOMAIN step_runs : \E o \in step_runs[k].output_files :
         ~o.is_none /\ o.input_paths = ParentPaths
    /\ \E k \in DOMAIN step_runs : \E o \in step_runs[k].output_files :
         o.is_none

\* ================================ get_run_ids_in_connections_input_files
Parents == {"P1", "P2"}
ConnNames == {"a", "b"}     \* in/<name> of the child, out/<name> of parents
Empty == <<"empty">>        \* the _connect target 'empty'
Targets == (Parents \X ConnNames) \cup {Empty}

\* values of one _connect entry: a single target or a list of two
ConnectValues ==
    {{t} : t \in Targets}
      \cup {{Empty, <<"P1", "a">>}, {<<"P1", "a">>, <<"P2", "a">>}}

\* self.get_dependencies(): the parents in declared order
DependencyLists == {<<>>, <<"P1">>, <<"P1", "P2">>, <<"P2", "P1">>}

\* self.get_in_connections(): required and optional connections
get_in_connections(r) == r.in_required \cup r.in_optional

\* cc.connect(parent, child, self._options['_connect'])
connect_explicit(r, parent) ==
    {t \in UNION {options.connect[k] : k \in DOMAIN options.connect} :
       /\ t # Empty
       /\ t[1] = parent
       /\ t[2] \in r.parent_out[parent]}

\* the in connections bound by the explicit map for this parent
bound_explicit(r, parent) ==
    {k \in DOMAIN options.connect :
       options.connect[k] \cap connect_explicit(r, parent) # {}}

\* cc.connect(parent, child): equally named connections
connect_auto(r, parent) ==
    {<<parent, n>> : n \in r.parent_out[parent] \cap get_in_connections(r)}

bound_auto(r, parent) == r.parent_out[parent] \cap get_in_connections(r)

\* "if not used_conns": the explicit map made no connection
NeedsAuto_always(used_conns) == TRUE

NeedsAuto(used_conns) == used_conns = {}

\* set_out_connections.discard('empty')
discard_nothing(set_out) == set_out

discard_empty(set_out) == set_out \ {Empty}

\* required_connections - cc.existing_connections
MissingRequired_none(r) == {}

MissingRequired(r) == r.in_required \ r.existing_connections

Fail(r, kind) == [r EXCEPT !.pc = "raised", !.error = kind]

\* lines 1160-1169: every key of _connect must be an in connection
CheckConnectKeys ==
    /\ resolver.pc = "connect_keys"
    /\ resolver' =
         IF \E k \in DOMAIN options.connect :
              k \notin get_in_connections(resolver)
         THEN Fail(resolver, "unknown_input")
         ELSE [resolver EXCEPT
                 !.pc = "empty",
                 !.set_out_connections =
                    UNION {options.connect[k] : k \in DOMAIN options.connect}]
    /\ UNCHANGED <<step_runs, pipeline, options, call, step>>
    /\ UNCHANGED runVars

\* lines 1171-1177
DiscardEmpty ==
    /\ resolver.pc = "empty"
    /\ resolver' =
         IF Empty \in resolver.set_out_connections
         THEN [resolver EXCEPT
                 !.pc = "parents", !.warned_empty = TRUE,
                 !.set_out_connections = discard_empty(@)]
         ELSE [resolver EXCEPT !.pc = "parents"]
    /\ UNCHANGED <<step_runs, pipeline, options, call, step>>
    /\ UNCHANGED runVars

\* lines 1179-1198: one pass of the loop over the parents
ConnectParent ==
    /\ resolver.pc = "parents"
    /\ resolver.i <= Len(resolver.deps)
    /\ LET r == resolver
           parent == r.deps[r.i]
           first == connect_explicit(r, parent)
           auto == NeedsAuto(first)
           used == IF auto THEN connect_auto(r, parent) ELSE first
           bound == IF auto THEN bound_auto(r, parent)
                    ELSE bound_explicit(r, parent)
       IN resolver' =
            IF ~r.parent_runs[parent] THEN Fail(r, "no_output")
            ELSE IF used = {} THEN Fail(r, "no_connection")
            ELSE [r EXCEPT
                    !.i = @ + 1,
                    !.bound_by[parent] = IF auto THEN "auto" ELSE "explicit",
                    !.existing_connections = @ \cup bound,
                    !.used_out_connections = @ \cup used]
    /\ UNCHANGED <<step_runs, pipeline, options, call, step>>
    /\ UNCHANGED runVars

\* lines 1200-1212: unmet required connections are only warned about
CheckRequired ==
    /\ resolver.pc = "parents"
    /\ resolver.i > Len(resolver.deps)
    /\ resolver' = [resolver EXCEPT
                      !.pc = "unrecognized",
                      !.warned_missing = MissingRequired(resolver) # {}]
    /\ UNCHANGED <<step_runs, pipeline, options, call, step>>
    /\ UNCHANGED runVars

\* lines 1214-1221
CheckUnrecognized ==
    /\ resolver.pc = "unrecognized"
    /\ resolver' =
         IF resolver.set_out_connections \ resolver.used_out_connections # {}
         THEN Fail(resolver, "unrecognized")
         ELSE [resolver EXCEPT !.pc = "returned"]
    /\ UNCHANGED <<step_runs, pipeline, options, call, step>>
    /\ UNCHANGED runVars

InitConnect ==
    /\ IdleRun
    /\ step_runs = NoRuns
    /\ pipeline = NoPipeline
    /\ call = NoCall
    /\ step = NoStep
    /\ \E keys \in SUBSET ConnNames : \E cm \in [keys -> ConnectValues] :
         options = [NoOptions EXCEPT !.connect = cm]
    /\ \E deps \in DependencyLists, req \in SUBSET ConnNames,
          opt \in SUBSET ConnNames,
          po \in [Parents -> SUBSET ConnNames], pr \in [Parents -> BOOLEAN] :
         /\ req \cap opt = {}
         /\ \A q \in Parents :
              \/ \E j \in 1..Len(deps) : deps[j] = q /\ (pr[q] \/ po[q] = {})
              \/ (\A j \in 1..Len(deps) : deps[j] # q)
                   /\ po[q] = {} /\ ~pr[q]
         /\ resolver = [pc |-> "connect_keys", deps |-> deps, i |-> 1,
                        in_required |-> req, in_optional |-> opt,
                        parent_out |-> po, parent_runs |-> pr,
                        set_out_connections |-> {},
                        used_out_connections |-> {},
                        existing_connections |-> {},
                        bound_by |-> [q \in Parents |-> "none"],
                        warned_empty |-> FALSE, warned_missing |-> FALSE,
                        error |-> "none"]

NextConnect ==
    \/ CheckConnectKeys
    \/ DiscardEmpty
    \/ ConnectParent
    \/ CheckRequired
    \/ CheckUnrecognized

\* the connections of one step are resolved against its parents
SpecConnect == InitConnect /\ [][NextConnect]_vars

ConnectTargets == UNION {options.connect[k] : k \in DOMAIN options.connect}
Processed(q) == \E j \in 1..(resolver.i - 1) : resolver.deps[j] = q

\* C16 (as stated): whenever resolution succeeds (here: with at least one
\* connection made), every non-optional input connection of the step is
\* bound to at least one parent output.
C16_RequiredInputsBound ==
    (resolver.pc = "returned" /\ resolver.existing_connections # {}) =>
      resolver.in_required \subseteq resolver.existing_connections

\* C16 (amended): a required input connection left without a parent
\* output never fails the resolution; it is warned about, exactly when one
\* is unmet.  A resolution that succeeds has bound at least one connection
\* for every parent and used every target of _connect other than 'empty'.
C16_UnmetRequiredOnlyWarned ==
    /\ resolver.error \in {"none", "unknown_input", "no_output",
                           "no_connection", "unrecognized"}
    /\ resolver.pc \in {"unrecognized", "returned"} =>
         (resolver.warned_missing
            <=> resolver.in_required \ resolver.existing_connections # {})
    /\ resolver.pc = "returned" =>
         /\ \A j \in 1..Len(resolver.deps) :
              resolver.bound_by[resolver.deps[j]] # "none"
         /\ ConnectTargets \ {Empty} \subseteq resolver.used_out_connections
         /\ resolver.existing_connections \subseteq get_in_connections(resolver)

C16_SucceededWithUnmetRequired ==
    /\ resolver.pc = "returned"
    /\ resolver.warned_missing
    /\ resolver.in_required \ resolver.existing_connections # {}
    /\ resolver.existing_connections # {}

\* C17: parents are processed in declared order; for each parent the
\* explicit _connect map is tried first and equally named connections are
\* auto-bound only if the map gave no binding for that parent; a parent
\* without runs, or with no binding either way, fails the resolution.
C17_PerParentBinding ==
    /\ \A q \in Parents :
         /\ resolver.bound_by[q] # "none" <=> Processed(q)
         /\ resolver.bound_by[q] = "explicit" =>
              /\ \E t \in ConnectTargets :
                   t # Empty /\ t[1] = q /\ t[2] \in resolver.parent_out[q]
              /\ resolver.parent_runs[q]
         /\ resolver.bound_by[q] = "auto" =>
              /\ ~\E t \in ConnectTargets :
                    t # Empty /\ t[1] = q /\ t[2] \in resolver.parent_out[q]
              /\ resolver.parent_out[q] \cap get_in_connections(resolver) # {}
              /\ resolver.parent_runs[q]
    /\ resolver.error = "no_output" =>
         ~resolver.parent_runs[resolver.deps[resolver.i]]
    /\ resolver.error = "no_connection" =>
         LET q == resolver.deps[resolver.i] IN
           /\ ~\E t \in ConnectTargets :
                 t # Empty /\ t[1] = q /\ t[2] \in resolver.parent_out[q]
           /\ resolver.parent_out[q] \cap get_in_connections(resolver) = {}
    /\ resolver.pc \in {"unrecognized", "returned"} =>
         resolver.i = Len(resolver.deps) + 1
    /\ (resolver.pc = "raised" /\ resolver.error # "unknown_input") =>
         \/ resolver.error = "unrecognized"
         \/ /\ resolver.i <= Len(resolver.deps)
            /\ resolver.error \in {"no_output", "no_connection"}

C17_SecondParentAutoBound ==
    /\ resolver.pc = "returned"
    /\ Len(resolver.deps) = 2
    /\ resolver.bound_by[resolver.deps[1]] = "explicit"
    /\ resolver.bound_by[resolver.deps[2]] = "auto"

\* C18: a target of _connect other than 'empty' that no parent binding
\* used fails the resolution; 'empty' is warned about, removed from the
\* set that is checked, and is never the reason of that failure.
C18_UnusedTargetFails ==
    /\ resolver.error = "unrecognized" =>
         \E t \in ConnectTargets :
           t # Empty /\ t \notin resolver.used_out_connections
    /\ resolver.pc = "returned" =>
         \A t \in ConnectTargets :
           t # Empty => t \in resolver.used_out_connections
    /\ resolver.pc \in {"parents", "unrecognized", "returned"} =>
         /\ Empty \notin resolver.set_out_connections
         /\ resolver.warned_empty <=> Empty \in ConnectTargets
         /\ resolver.set_out_connections = ConnectTargets \ {Empty}

C18_EmptyTolerated ==
    /\ resolver.pc = "returned"
    /\ resolver.warned_empty
    /\ Empty \in ConnectTargets
    /\ ConnectTargets # {Empty}

\* ============================================ properties of run(), continued
\* C28: a failed run keeps its temp directory and every file in it: the
\* temp directory is removed only by the rmdir of the success branch (no
\* error recorded) and only when it is empty, and a file leaves the temp
\* directory only by being renamed into output_dir.
C28_TempDirKept ==
    /\ [](\A d \in Drivers :
            drv[d].error # "none" =>
              get_temp_output_directory(d) \in files.tempDirs)
    /\ [][\A d \in Drivers :
            /\ (get_temp_output_directory(d) \in files.tempDirs
                  /\ get_temp_output_directory(d) \notin files'.tempDirs) =>
                 /\ drv[d].pc = "rmdir"
                 /\ drv[d].error = "none"
                 /\ drv[d].temp = {}
            /\ (drv[d].temp \ drv'[d].temp) # {} =>
                 /\ drv[d].pc = "rename"
                 /\ (drv[d].temp \ drv'[d].temp) \subseteq files'.outdir]_vars

C28_FailedRunTempKept ==
    \E d \in Drivers :
      /\ drv[d].pc = "raised"
      /\ drv[d].raisedAt = "reraise"
      /\ drv[d].temp = Outputs
      /\ get_temp_output_directory(d) \in files.tempDirs

\* C29: hash before publish: a temp output is renamed into output_dir only
\* after the SHA-256 of every path in to_be_moved was computed (the hashing
\* pool was closed by the else branch) and recorded with the run's known
\* paths; when hashing failed or was interrupted no file is renamed.
C29_HashBeforePublish ==
    \A d \in Drivers :
      /\ drv[d].moved # {} =>
           /\ drv[d].pool = "closed"
           /\ drv[d].to_be_moved \subseteq drv[d].sha256
           /\ drv[d].run_known_sha256 = drv[d].sha256
      /\ (drv[d].to_be_moved # {} /\ drv[d].pool # "closed") =>
           /\ drv[d].moved = {}
           /\ files.outdir = {}

C29_RenamingAfterAllHashed ==
    \E d \in Drivers :
      /\ drv[d].pc = "rename"
      /\ drv[d].to_be_moved = Outputs
      /\ drv[d].moved # {}
      /\ drv[d].moved # drv[d].to_be_moved

\* C30: when an exec group raises (a command of the pool exits non-zero)
\* the pool is killed and the exception stored; no declared output is
\* checked, hashed or moved into output_dir, whatever the temp directory
\* holds; and a run that no signal reaches ends by re-raising the stored
\* exception after the annotation with its text was written.
C30_ExecFailure ==
    \A d \in Drivers :
      drv[d].caught_exception = "exec_failed" =>
        /\ drv[d].poolDead
        /\ drv[d].live = {}
        /\ drv[d].to_be_moved = {}
        /\ drv[d].unlinked = {}
        /\ files.volatile = Declared
        /\ drv[d].sha256 = {}
        /\ drv[d].pool = "none"
        /\ drv[d].moved = {}
        /\ files.outdir = {}
        /\ (Finished(d) /\ drv[d].nsig = 0) =>
             /\ drv[d].pc = "raised"
             /\ drv[d].raisedAt = "reraise"
             /\ drv[d].exc = "exec_failed"
             /\ files.annotation.exists
             /\ files.annotation.error = "exec_failed"

C30_FailedWithAllOutputsInTemp ==
    \E d \in Drivers :
      /\ drv[d].pc = "raised"
      /\ drv[d].exc = "exec_failed"
      /\ drv[d].nsig = 0
      /\ Declared = Outputs
      /\ drv[d].temp = Outputs

\* C25: for a step configured with _BREAK: true every call of get_runs()
\* returns an empty run mapping: declare_runs is never invoked (no run is
\* declared, the loop over the runs is never entered) and the pipeline gets
\* no file dependency and no task from the step.
C25_BreakPrunes ==
    options.BREAK =>
      /\ DOMAIN step_runs = {}
      /\ call.result # "recording"
      /\ call.pending = {}
      /\ pipeline = ParentPipeline

C25_BreakReturned == options.BREAK /\ call.result = "returned"

\* ============================================================ set_options
MaxDepends == 2     \* entries of a _depends list in the configuration
MaxConnect == 2     \* entries of the _connect mapping

\* An option key is its character sequence, key[1] being Python's key[0];
\* the rest of the name is kept as one element.
UNDERSCORE_OPTIONS ==
    {<<"_", "depends">>, <<"_", "volatile">>, <<"_", "BREAK">>,
     <<"_", "connect">>, <<"_", "cluster_submit_options">>,
     <<"_", "cluster_pre_job_command">>,
     <<"_", "cluster_post_job_command">>, <<"_", "cluster_job_quota">>}

\* A YAML value is <<type(value), payload>>.
None == <<"NoneType", <<>>>>
type(value) == value[1]
IntValues == {<<"int", <<"1">>>>, <<"int", <<"2">>>>}
StrValues == {<<"str", <<"s">>>>}
ListValues == {<<"list", <<None>>>>, <<"list", <<None, <<"int", <<"1">>>>>>>>}
OptionValues == IntValues \cup StrValues \cup ListValues \cup {None}

SeqsUpTo(S, n) == UNION {[1..k -> S] : k \in 0..n}
Range(f) == {f[k] : k \in DOMAIN f}

\* _depends: a step name or a list of step names
DependsValues ==
    {<<"str", q>> : q \in Parents}
      \cup {<<"list", l>> : l \in SeqsUpTo(Parents, MaxDepends)}

\* _connect: the values of the mapping in its order, each '<parent>/<out>'
\* (split at '/'), 'empty', or a list of two of these
OptionTargets == (Parents \X {"a"}) \cup {Empty}
InCons ==
    {<<"str", t>> : t \in OptionTargets}
      \cup {<<"list", l>> : l \in OptionTargets \X OptionTargets}
ConnectDicts == {<<"dict", c>> : c \in SeqsUpTo(InCons, MaxConnect)}

\* the step's own options as add_option leaves them in _defined_options
OptionKey == <<"n", "um">>
UnknownKey == <<"x", "tra">>
InvalidKey == <<"_", "other">>
EmptyKey == <<>>
OptionInfos ==
    {info \in [types : {{"int"}, {"int", "str"}, {"list"}},
               optional : BOOLEAN,
               default : {None, <<"int", <<"2">>>>},
               choices : {None, <<"list", << <<"int", <<"1">>>> >> >>}] :
       /\ (info.choices # None) => info.types = {"int"}
       /\ (info.default # None) => type(info.default) \in info.types
       /\ (~info.optional) => info.default = None}
DefinedOptions ==
    {NoRuns} \cup {(OptionKey :> info) : info \in OptionInfos}

\* the options mapping of one step of the configuration
TypedOptions ==
    {g \in UNION {[ks -> OptionValues] :
                    ks \in SUBSET {OptionKey, UnknownKey, InvalidKey,
                                   EmptyKey}} :
       \A k \in DOMAIN g : k # OptionKey => g[k] = <<"int", <<"1">>>>}
ReservedOptions ==
    LET dep == <<"_", "depends">>
        con == <<"_", "connect">>
    IN  {NoRuns}
          \cup {(dep :> d) : d \in DependsValues}
          \cup {(con :> c) : c \in ConnectDicts}
          \cup {(dep :> d) @@ (con :> c) :
                  d \in DependsValues, c \in ConnectDicts}

OptionsFail(kind) ==
    /\ call' = [call EXCEPT !.result = kind]
    /\ UNCHANGED options

\* self._options = dict()
set_options_enter ==
    /\ call.result = "none"
    /\ options' = NoRuns
    /\ call' = [call EXCEPT !.result = "options",
                            !.pending = DOMAIN call.given]
    /\ UNCHANGED <<step_runs, pipeline, resolver, step>>
    /\ UNCHANGED runVars

InvalidUnderscore_never(key) == FALSE

\* key not in AbstractStep.UNDERSCORE_OPTIONS
InvalidUnderscore(key) == key \notin UNDERSCORE_OPTIONS

\* value is not None and type(value) not in types
InvalidType(value, info) == value # None /\ type(value) \notin info.types

\* choices is not None and value not in choices
InvalidChoice(value, info) ==
    /\ info.choices # None
    /\ value \notin Range(info.choices[2])

\* one pass of: for key, value in options.items()
set_options_key ==
    /\ call.result = "options"
    /\ call.pending # {}
    /\ \E key \in call.pending :
         LET value == call.given[key]
             bound ==
               /\ options' = (key :> value) @@ options
               /\ call' = [call EXCEPT !.pending = @ \ {key}]
         IN
         IF key = EmptyKey THEN OptionsFail("IndexError")
         ELSE IF key[1] = "_"
         THEN IF InvalidUnderscore(key)
              THEN OptionsFail("UAPError_invalid_option")
              ELSE bound
         ELSE IF key \notin DOMAIN step.defined_options
         THEN OptionsFail("UAPError_unknown_option")
         ELSE IF InvalidType(value, step.defined_options[key])
         THEN OptionsFail("UAPError_invalid_type")
         ELSE IF InvalidChoice(value, step.defined_options[key])
         THEN OptionsFail("UAPError_invalid_value")
         ELSE bound
    /\ UNCHANGED <<step_runs, pipeline, resolver, step>>
    /\ UNCHANGED runVars

\* for key, info in self._defined_options.items(): defaults, required
set_options_defaults ==
    /\ call.result = "options"
    /\ call.pending = {}
    /\ LET unset == DOMAIN step.defined_options \ DOMAIN options IN
       IF \E key \in unset : ~step.defined_options[key].optional
       THEN OptionsFail("UAPError_required_option")
       ELSE /\ options' = [key \in unset |->
                             step.defined_options[key].default] @@ options
            /\ call' = [call EXCEPT !.result = "reserved"]
    /\ UNCHANGED <<step_runs, pipeline, resolver, step>>
    /\ UNCHANGED runVars

\* dict.setdefault
setdefault(d, key, value) == IF key \in DOMAIN d THEN d ELSE (key :> value) @@ d

\* in_cons if isinstance(in_cons, list) else [in_cons]
as_list(v) == IF type(v) = "list" THEN v[2] ELSE <<v[2]>>

\* parent_cons.split("/")[0]
split0(parent_cons) == parent_cons[1]

RECURSIVE parent_cons_of(_)
\* the targets of _connect in the order the two nested loops visit them
parent_cons_of(in_cons_values) ==
    IF in_cons_values = <<>> THEN <<>>
    ELSE as_list(Head(in_cons_values)) \o parent_cons_of(Tail(in_cons_values))

implied_unchecked(depends, parent) == parent # "empty"

\* parent not in self._options['_depends'] and parent != 'empty'
implied(depends, parent) == parent \notin Range(depends) /\ parent # "empty"

RECURSIVE add_implied(_, _)
add_implied(depends, targets) ==
    IF targets = <<>> THEN depends
    ELSE LET parent == split0(Head(targets)) IN
         add_implied(IF implied(depends, parent)
                     THEN Append(depends, parent) ELSE depends,
                     Tail(targets))

\* the setdefault calls, the _depends list and the implied dependencies
set_options_reserved ==
    /\ call.result = "reserved"
    /\ LET o1 == setdefault(options, <<"_", "volatile">>, <<"bool", <<"False">>>>)
           o2 == setdefault(o1, <<"_", "cluster_submit_options">>, <<"str", <<>>>>)
           o3 == setdefault(o2, <<"_", "cluster_pre_job_command">>, <<"str", <<>>>>)
           o4 == setdefault(o3, <<"_", "cluster_post_job_command">>, <<"str", <<>>>>)
           o5 == setdefault(o4, <<"_", "cluster_job_quota">>, <<"int", <<"0">>>>)
           o6 == setdefault(o5, <<"_", "connect">>, <<"dict", <<>>>>)
           o7 == setdefault(o6, <<"_", "depends">>, <<"list", <<>>>>)
           depends == as_list(o7[<<"_", "depends">>])
           targets == parent_cons_of(o7[<<"_", "connect">>][2])
       IN
       options' = [o7 EXCEPT ![<<"_", "depends">>] =
                     <<"list", add_implied(depends, targets)>>]
    /\ call' = [call EXCEPT !.result = "ok"]
    /\ UNCHANGED <<step_runs, pipeline, resolver, step>>
    /\ UNCHANGED runVars

\* a step with its declared options is handed the options of its
\* configuration entry
InitOptions ==
    /\ IdleRun
    /\ step_runs = NoRuns
    /\ pipeline = NoPipeline
    /\ resolver = [pc |-> "idle"]
    /\ options = NoRuns
    /\ \E defined \in DefinedOptions, typed \in TypedOptions,
          reserved \in ReservedOptions :
         /\ (typed = NoRuns /\ defined = NoRuns)
              \/ <<"_", "connect">> \notin DOMAIN reserved
         /\ step = [NoStep EXCEPT !.defined_options = defined]
         /\ call = [result |-> "none", run_id |-> <<>>, pending |-> {},
                    given |-> typed @@ reserved, query |-> <<>>]

\* any([v is not None for v in self._options[key]])
any_not_None(list) == \E i \in DOMAIN list : list[i] # None

\* what is_option_set_in_config(key) returns or raises
is_set_in_config(key) ==
    IF key \notin DOMAIN step.defined_options THEN "UAPError"
    ELSE IF key \notin DOMAIN options THEN "False"
    ELSE IF type(options[key]) = "list"
         THEN IF any_not_None(options[key][2]) THEN "True" ELSE "False"
         ELSE IF options[key] # None THEN "True" ELSE "False"

\* self.is_option_set_in_config(key), called by the step after set_options
is_option_set_in_config(key) ==
    /\ call.result = "ok"
    /\ call.query = <<>>
    /\ call' = [call EXCEPT !.query = <<key, is_set_in_config(key)>>]
    /\ UNCHANGED <<step_runs, pipeline, resolver, options, step>>
    /\ UNCHANGED runVars

NextOptions ==
    \/ set_options_enter
    \/ set_options_key
    \/ set_options_defaults
    \/ set_options_reserved
    \/ \E key \in {OptionKey, UnknownKey} : is_option_set_in_config(key)

SpecOptions == InitOptions /\ [][NextOptions]_vars

\* C22: set_options accepts a key beginning with '_' only if it is one of
\* the eight engine keys; a configuration with any other underscore key
\* never gets its options bound.
C22_UnderscoreKeys ==
    LET recognised ==
          {<<"_", "depends">>, <<"_", "volatile">>, <<"_", "BREAK">>,
           <<"_", "connect">>, <<"_", "cluster_submit_options">>,
           <<"_", "cluster_pre_job_command">>,
           <<"_", "cluster_post_job_command">>,
           <<"_", "cluster_job_quota">>}
    IN
    /\ call.result = "ok" =>
         \A key \in DOMAIN call.given :
           (key # EmptyKey /\ key[1] = "_") =>
             key \in recognised /\ key \in DOMAIN options
    /\ \A key \in DOMAIN options :
         (key # EmptyKey /\ key[1] = "_") => key \in recognised

C22_InvalidKeyFatal ==
    /\ call.result = "UAPError_invalid_option"
    /\ InvalidKey \in DOMAIN call.given
    /\ <<"_", "depends">> \in DOMAIN call.given

\* C23: after set_options succeeded every declared option is bound: a
\* required one was supplied, an optional one not supplied holds its
\* default, every supplied value has a type of the declared type set and
\* is one of the choices when choices are declared; no other key that is
\* not an engine key was supplied.
C23_BoundOptions ==
    call.result = "ok" =>
      /\ \A key \in DOMAIN step.defined_options :
           LET info == step.defined_options[key] IN
           /\ key \in DOMAIN options
           /\ (~info.optional) => key \in DOMAIN call.given
           /\ key \notin DOMAIN call.given => options[key] = info.default
           /\ key \in DOMAIN call.given =>
                /\ options[key] = call.given[key]
                /\ type(call.given[key]) \in info.types
                /\ info.choices # None =>
                     call.given[key] \in Range(info.choices[2])
      /\ \A key \in DOMAIN call.given :
           (key # EmptyKey /\ key[1] # "_") =>
             key \in DOMAIN step.defined_options

\* the configured _depends as a list, and the parents the _connect targets
\* name, each with the place <<entry, index in the entry, parent>>
ConfiguredDepends ==
    IF <<"_", "depends">> \notin DOMAIN call.given THEN <<>>
    ELSE IF call.given[<<"_", "depends">>][1] = "str"
         THEN <<call.given[<<"_", "depends">>][2]>>
         ELSE call.given[<<"_", "depends">>][2]
ConnectReferences ==
    IF <<"_", "connect">> \notin DOMAIN call.given THEN {}
    ELSE LET c == call.given[<<"_", "connect">>][2] IN
         UNION {IF c[i][1] = "str"
                THEN {<<i, 1, c[i][2][1]>>}
                ELSE {<<i, j, c[i][2][j][1]>> : j \in DOMAIN c[i][2]} :
                  i \in DOMAIN c}
FirstReference(q) ==
    CHOOSE r \in ConnectReferences :
      /\ r[3] = q
      /\ \A r2 \in ConnectReferences :
           r2[3] = q => (r[1] < r2[1] \/ (r[1] = r2[1] /\ r[2] <= r2[2]))

\* C24: after set_options the _depends list is the configured dependencies
\* in their order (a scalar as a one-element list) followed by the parents
\* named by _connect targets, in the order of their first appearance, each
\* once and only if not configured, and never 'empty'.
C24_DependsOrder ==
    call.result = "ok" =>
      LET bound == options[<<"_", "depends">>]
          n == Len(ConfiguredDepends)
          named == {r[3] : r \in ConnectReferences}
      IN
      /\ bound[1] = "list"
      /\ Len(bound[2]) >= n
      /\ SubSeq(bound[2], 1, n) = ConfiguredDepends
      /\ {bound[2][k] : k \in (n + 1)..Len(bound[2])}
           = (named \ Range(ConfiguredDepends)) \ {"empty"}
      /\ \A k, m \in (n + 1)..Len(bound[2]) :
           k < m =>
             /\ bound[2][k] # bound[2][m]
             /\ LET rk == FirstReference(bound[2][k])
                    rm == FirstReference(bound[2][m])
                IN rk[1] < rm[1] \/ (rk[1] = rm[1] /\ rk[2] < rm[2])

C24_ImpliedAfterConfigured ==
    /\ call.result = "ok"
    /\ ConfiguredDepends = <<"P2">>
    /\ call.given[<<"_", "depends">>][1] = "str"
    /\ {r[3] : r \in ConnectReferences} = {"P1", "P2", "empty"}
    /\ Cardinality(ConnectReferences) = 3
    /\ options[<<"_", "depends">>] = <<"list", <<"P2", "P1">>>>

\* ======================================= add_connection and require_tool
\* connection names as character sequences
ConnectionNames ==
    {<<"i", "n", "/", "a">>, <<"o", "u", "t", "/", "a">>,
     <<"i", "n", "/">>, <<"i", "n">>, <<"o", "u", "t">>,
     <<"a", "/", "i", "n", "/">>, <<>>}

\* connection[0:n]
slice(connection, n) ==
    SubSeq(connection, 1, IF Len(connection) < n THEN Len(connection) ELSE n)

add_connection(connection, optional) ==
    /\ IF ~(slice(connection, 3) = <<"i", "n", "/">>
             \/ slice(connection, 4) = <<"o", "u", "t", "/">>)
       THEN /\ call' = [op |-> "add_connection", connection |-> connection,
                        optional |-> optional,
                        declared |-> step.connections
                                       \cup step.optional_connections]
                         @@ [NoCall EXCEPT !.result = "UAPError"]
            /\ UNCHANGED step
       ELSE /\ step' =
                 [step EXCEPT
                    !.needs_parents =
                       IF slice(connection, 3) = <<"i", "n", "/">>
                       THEN TRUE ELSE @,
                    !.optional_connections =
                       IF optional THEN @ \cup {connection} ELSE @,
                    !.connections =
                       IF optional THEN @ ELSE @ \cup {connection}]
            /\ call' = [op |-> "add_connection", connection |-> connection,
                        optional |-> optional,
                        declared |-> step.connections
                                       \cup step.optional_connections]
                         @@ [NoCall EXCEPT !.result = "ok"]
    /\ UNCHANGED <<step_runs, pipeline, resolver, options>>
    /\ UNCHANGED runVars

\* config['tools']: name -> {path, pre_command?, post_command?,
\* module_load?, module_unload?}; every value is told apart by its tool and
\* its key
Tools == {"t1", "t2"}
ToolKeys == {"pre_command", "post_command", "module_load", "module_unload"}
ToolEntry(tool, keys) == [k \in {"path"} \cup keys |-> <<tool, k>>]
ToolTables ==
    {NoRuns, ("t2" :> ToolEntry("t2", {}))}
      \cup {("t1" :> ToolEntry("t1", ks)) : ks \in SUBSET ToolKeys}
      \cup {("t1" :> ToolEntry("t1", ks)) @@ ("t2" :> ToolEntry("t2", {})) :
              ks \in SUBSET ToolKeys}

\* self._x[tool] = config['tools'][tool]['x'] when the entry has the key
copy_entry(d, tool, entry, key) ==
    IF key \in DOMAIN entry THEN (tool :> entry[key]) @@ d ELSE d

require_tool(tool) ==
    /\ IF pipeline.exists
       THEN IF tool \notin DOMAIN pipeline.config_tools
            THEN /\ call' = [op |-> "require_tool", tool |-> tool]
                              @@ [NoCall EXCEPT !.result = "UAPError"]
                 /\ UNCHANGED step
            ELSE LET entry == pipeline.config_tools[tool] IN
                 /\ step' =
                      [step EXCEPT
                         !.tools = (tool :> entry["path"]) @@ @,
                         !.pre_command =
                            copy_entry(@, tool, entry, "pre_command"),
                         !.module_load =
                            copy_entry(@, tool, entry, "module_load"),
                         !.module_unload =
                            copy_entry(@, tool, entry, "module_unload"),
                         !.post_command =
                            copy_entry(@, tool, entry, "post_command")]
                 /\ call' = [op |-> "require_tool", tool |-> tool]
                              @@ [NoCall EXCEPT !.result = "ok"]
       ELSE /\ step' = [step EXCEPT !.tools = (tool :> <<"True">>) @@ @]
            /\ call' = [op |-> "require_tool", tool |-> tool]
                         @@ [NoCall EXCEPT !.result = "ok"]
    /\ UNCHANGED <<step_runs, pipeline, resolver, options>>
    /\ UNCHANGED runVars

\* a step kind is constructed, with or without a pipeline; the pipeline
\* carries the tools table and the --no-tool-checks argument
InitSetup ==
    /\ IdleRun
    /\ step_runs = NoRuns
    /\ resolver = [pc |-> "idle"]
    /\ options = NoOptions
    /\ call = NoCall
    /\ step = NoStep
    /\ \E exists \in BOOLEAN, table \in ToolTables, ntc \in BOOLEAN :
         /\ (~exists) => (table = NoRuns /\ ~ntc)
         /\ pipeline = [exists |-> exists, config_tools |-> table,
                        no_tool_checks |-> ntc] @@ NoPipeline

NextSetup ==
    \/ \E connection \in ConnectionNames, optional \in BOOLEAN :
         add_connection(connection, optional)
    \/ \E tool \in Tools : require_tool(tool)

SpecSetup == InitSetup /\ [][NextSetup]_vars

\* C26: add_connection accepts only names starting with 'in/' or 'out/'
\* and rejects a name already declared on the step, so that no name is
\* declared both as required and as optional.
C26_ConnectionNames ==
    /\ \A c \in step.connections \cup step.optional_connections :
         slice(c, 3) = <<"i", "n", "/">>
           \/ slice(c, 4) = <<"o", "u", "t", "/">>
    /\ (call.result = "ok" /\ call.op = "add_connection") =>
         call.connection \notin call.declared
    /\ step.connections \cap step.optional_connections = {}

\* C27: require_tool fails exactly when the tool is missing from the tools
\* table and the engine does not run in no-tool-checks mode; for a declared
\* tool the path and the pre_command, post_command, module_load and
\* module_unload entries present in the table are copied to the step.
C27_RequireTool ==
    (call.result # "none" /\ call.op = "require_tool" /\ pipeline.exists) =>
      LET tool == call.tool
          table == pipeline.config_tools
      IN
      /\ call.result = "UAPError" <=>
           (tool \notin DOMAIN table /\ ~pipeline.no_tool_checks)
      /\ tool \in DOMAIN table =>
           /\ step.tools[tool] = table[tool]["path"]
           /\ \A k \in ToolKeys :
                k \in DOMAIN table[tool] =>
                  /\ k = "pre_command" =>
                       step.pre_command[tool] = table[tool][k]
                  /\ k = "post_command" =>
                       step.post_command[tool] = table[tool][k]
                  /\ k = "module_load" =>
                       step.module_load[tool] = table[tool][k]
                  /\ k = "module_unload" =>
                       step.module_unload[tool] = table[tool][k]

\* ===================================== run enumeration of raw_file_source
MaxFiles == 3       \* files on disk that the source step can see

\* the step is materialised twice, e.g. by two invocations of the engine
Materialisations == {1, 2}

\* what the capture group of 'group' yields for a basename
SampleIds == {<<"a">>, <<"a", " ">>, <<"a", "_">>}
\* a path is <<captured sample id, rest of the name>>
NoMatch == <<<<>>, "nomatch">>
PathPool == (SampleIds \X {"R1", "R2"}) \cup {NoMatch}
DiskStates == {d \in SUBSET PathPool : Cardinality(d) <= MaxFiles}

\* glob.glob returns the matching paths in arbitrary order
Perms(S) ==
    {q \in [1..Cardinality(S) -> S] :
       \A k, m \in 1..Cardinality(S) : k # m => q[k] # q[m]}

\* sample_to_files_map of the configuration, in its order
SampleMaps ==
    UNION {{[k \in 1..Len(q) |-> <<q[k], <<<<q[k], "R1">>>>>>] : q \in Perms(ids)} :
             ids \in SUBSET SampleIds}

\* regex.match(os.path.basename(path))
match(path) == IF path = NoMatch THEN None ELSE <<"Match", path[1]>>

\* '_'.join(sample_id_parts)
sample_id_of(prefix, groups) ==
    IF prefix = None THEN groups ELSE prefix[2] \o <<"_">> \o groups

\* found_files, a dict in insertion order: a sequence of <<key, paths>>
found_keys(found_files) == {found_files[k][1] : k \in DOMAIN found_files}
found_append(found_files, sample_id, path) ==
    IF sample_id \in found_keys(found_files)
    THEN [k \in DOMAIN found_files |->
            IF found_files[k][1] = sample_id
            THEN <<sample_id, Append(found_files[k][2], path)>>
            ELSE found_files[k]]
    ELSE Append(found_files, <<sample_id, <<path>>>>)
found_set(found_files, run_id, paths) ==
    IF run_id \in found_keys(found_files)
    THEN [k \in DOMAIN found_files |->
            IF found_files[k][1] = run_id
            THEN <<run_id, paths>> ELSE found_files[k]]
    ELSE Append(found_files, <<run_id, paths>>)

\* the keys of self._runs, a dict in insertion order
run_keys(runs) == {runs[k].run_id : k \in DOMAIN runs}

\* Python's order of str: by code point, a prefix first
ord(c) == CASE c = " " -> 32 [] c = "_" -> 95 [] OTHER -> 97
str_lt(x, y) ==
    \E k \in 1..(Len(y)) :
      /\ \A j \in 1..(k - 1) : j <= Len(x) /\ x[j] = y[j]
      /\ (k > Len(x) \/ ord(x[k]) < ord(y[k]))
RECURSIVE sorted(_)
sorted(S) ==
    IF S = {} THEN <<>>
    ELSE LET least == CHOOSE x \in S : \A y \in S \ {x} : str_lt(x, y)
         IN <<least>> \o sorted(S \ {least})

get_run_ids_unsorted(runs) == [k \in DOMAIN runs |-> runs[k].run_id]

\* sorted(self.get_runs().keys())
get_run_ids(runs) == sorted(run_keys(runs))

EnumDone(m) == call[m].pc \in {"enumerated", "StepError", "UAPError"}
\* the second materialisation follows the first
EnumTurn(m) == m = 1 \/ EnumDone(1)

\* runs(): choice of the branch; glob for the pattern branch
runs_enter(m) ==
    /\ EnumTurn(m)
    /\ call[m].pc = "start"
    /\ IF options.group # None /\ options.pattern # None
       THEN \E order \in Perms(files.on_disk) :
              call' = [call EXCEPT ![m].pc = "group", ![m].todo = order]
       ELSE IF options.sample_to_files_map # None
       THEN call' = [call EXCEPT ![m].pc = "map",
                                 ![m].todo = options.sample_to_files_map[2]]
       ELSE call' = [call EXCEPT ![m].pc = "StepError"]
    /\ UNCHANGED <<step_runs, pipeline, resolver, options, step>>
    /\ UNCHANGED runVars

\* one pass of: for path in glob.glob(...)
runs_group(m) ==
    /\ call[m].pc = "group"
    /\ LET c == call[m] IN
       IF c.todo = <<>>
       THEN call' = [call EXCEPT ![m].pc = "declare"]
       ELSE LET path == Head(c.todo) IN
            IF match(path) = None
            THEN call' = [call EXCEPT ![m].pc = "StepError"]
            ELSE call' = [call EXCEPT
                   ![m].todo = Tail(c.todo),
                   ![m].found_files =
                      found_append(@, sample_id_of(options.sample_id_prefix,
                                                   match(path)[2]), path)]
    /\ UNCHANGED <<step_runs, pipeline, resolver, options, step>>
    /\ UNCHANGED runVars

\* one pass of: for run_id, paths in sample_to_files_map.items()
runs_map(m) ==
    /\ call[m].pc = "map"
    /\ LET c == call[m] IN
       IF c.todo = <<>>
       THEN call' = [call EXCEPT ![m].pc = "declare"]
       ELSE LET run_id == Head(c.todo)[1]
                paths == Head(c.todo)[2] IN
            IF \E k \in DOMAIN paths : paths[k] \notin files.on_disk
            THEN call' = [call EXCEPT ![m].pc = "StepError"]
            ELSE call' = [call EXCEPT
                   ![m].todo = Tail(c.todo),
                   ![m].found_files = found_set(@, run_id, paths)]
    /\ UNCHANGED <<step_runs, pipeline, resolver, options, step>>
    /\ UNCHANGED runVars

\* one pass of: for run_id, paths in found_files.items(): declare_run
runs_declare(m) ==
    /\ call[m].pc = "declare"
    /\ LET c == call[m] IN
       IF c.found_files = <<>>
       THEN /\ call' = [call EXCEPT ![m].pc = "declared"]
            /\ UNCHANGED step_runs
       ELSE LET raw == Head(c.found_files)[1]
                run_id == re_sub(raw) IN
            IF run_id \in run_keys(step_runs[m])
            THEN /\ call' = [call EXCEPT ![m].pc = "UAPError"]
                 /\ UNCHANGED step_runs
            ELSE /\ step_runs' =
                      [step_runs EXCEPT ![m] =
                         Append(@, [output_files |-> Head(c.found_files)[2]]
                                     @@ Run(run_id, raw))]
                 /\ call' = [call EXCEPT
                               ![m].found_files = Tail(c.found_files)]
    /\ UNCHANGED <<pipeline, resolver, options, step>>
    /\ UNCHANGED runVars

\* get_run_ids() on the materialised step
enumerate_runs(m) ==
    /\ call[m].pc = "declared"
    /\ call' = [call EXCEPT ![m].pc = "enumerated",
                            ![m].run_ids = get_run_ids(step_runs[m])]
    /\ UNCHANGED <<step_runs, pipeline, resolver, options, step>>
    /\ UNCHANGED runVars

InitEnumerate ==
    /\ cfg = [output_files |-> [o \in Outputs |-> "none"], debugging |-> FALSE,
              queued0 |-> FALSE, stamp |-> [d \in Drivers |-> d]]
    /\ pings = InitPings(FALSE, Absent)
    /\ drv = [d \in Drivers |-> OffDriver]
    /\ \E d \in DiskStates : files = [on_disk |-> d] @@ InitFiles({})
    /\ pipeline = NoPipeline
    /\ resolver = [pc |-> "idle"]
    /\ step = NoStep
    /\ \E branch \in {"pattern", "map", "none"},
          prefix \in {None, <<"str", <<"a">>>>}, map \in SampleMaps :
         /\ branch # "map" => map = <<>>
         /\ branch = "map" => prefix = None
         /\ options =
              [pattern |-> IF branch = "pattern" THEN <<"str", <<"p">>>> ELSE None,
               group |-> IF branch = "pattern" THEN <<"str", <<"g">>>> ELSE None,
               sample_id_prefix |-> prefix,
               sample_to_files_map |->
                  IF branch = "map" THEN <<"dict", map>> ELSE None]
    /\ step_runs = [m \in Materialisations |-> <<>>]
    /\ call = [m \in Materialisations |->
                 [pc |-> "start", todo |-> <<>>, found_files |-> <<>>,
                  run_ids |-> <<>>]]

NextEnumerate ==
    \E m \in Materialisations :
      \/ runs_enter(m)
      \/ runs_group(m)
      \/ runs_map(m)
      \/ runs_declare(m)
      \/ enumerate_runs(m)

SpecEnumerate == InitEnumerate /\ [][NextEnumerate]_vars

C31_PlaceholderOnlyForPublished ==
    \A d \in Drivers :
      Finished(d) => drv[d].unlinked \subseteq files.outdir

\* ===================================================== heartbeat and time
\* AbstractStep.PING_TIMEOUT, AbstractStep.PING_RENEW (seconds)
PING_TIMEOUT == 300
PING_RENEW == 30

\* pings.age: seconds since the mtime of the executing ping;
\* pings.slept: seconds the heartbeat worker has been in time.sleep
InitClock == [age |-> 0, slept |-> 0]

\* the forked child: while True: time.sleep(PING_RENEW); os.utime(path);
\* an OSError of os.utime ends it through finally: os._exit(0). It ends in
\* no other way than by a SIGTERM sent to it (kill_exec_ping).
heartbeat(d) ==
    /\ drv[d].executing_ping_pid = "alive"
    /\ pings.slept >= PING_RENEW
    /\ IF pings.executing # Absent
       THEN /\ pings' = [pings EXCEPT !.age = 0, !.slept = 0]
            /\ UNCHANGED drv
       ELSE /\ drv' = [drv EXCEPT ![d].executing_ping_pid = "exited"]
            /\ pings' = [pings EXCEPT !.slept = 0]
    /\ UNCHANGED <<cfg, files>>
    /\ UNCHANGED buildVars

HeartbeatDue == \E d \in Drivers :
    drv[d].executing_ping_pid = "alive" /\ pings.slept >= PING_RENEW

\* PING_RENEW seconds pass; a worker whose sleep is over runs first
Elapse ==
    /\ ~HeartbeatDue
    /\ pings' = [pings EXCEPT
                   !.age = IF pings.executing = Absent THEN 0
                           ELSE IF @ > PING_TIMEOUT THEN @
                           ELSE @ + PING_RENEW,
                   !.slept = IF \E d \in Drivers :
                                  drv[d].executing_ping_pid = "alive"
                             THEN PING_RENEW ELSE 0]
    /\ UNCHANGED <<cfg, files, drv>>
    /\ UNCHANGED buildVars

\* SIGKILL to the driver process: it ends at once, nothing of run() runs
SigKill(d) ==
    /\ drv[d].pc \notin TerminalPcs
    /\ drv' = [drv EXCEPT ![d].pc = "killed",
                          ![d].raisedAt = Interrupted(drv[d])]
    /\ UNCHANGED <<cfg, pings, files>>
    /\ UNCHANGED buildVars

\* SIGTERM while the handler of run() is not installed
DefaultTerm(d) ==
    /\ drv[d].pc \notin TerminalPcs
    /\ HandlerFor(drv[d], "SIGTERM") = "orig"
    /\ drv' = [drv EXCEPT ![d] = Deliver(@, "SIGTERM")]
    /\ UNCHANGED <<cfg, pings, files>>
    /\ UNCHANGED buildVars

InitHeartbeat ==
    /\ cfg = [output_files |-> [o \in Outputs |-> "file"],
              debugging |-> FALSE, queued0 |-> TRUE,
              stamp |-> [d \in Drivers |-> d]]
    /\ pings = InitClock @@ InitPings(TRUE, Absent)
    /\ files = InitFiles(Outputs)
    /\ drv = [d \in Drivers |-> IF d = 1 THEN InitDriver ELSE OffDriver]
    /\ IdleBuild

NextHeartbeat ==
    \/ DriverStep(1)
    \/ SigKill(1)
    \/ DefaultTerm(1)
    \/ heartbeat(1)
    \/ Elapse

\* time passes, and a heartbeat worker that exists is scheduled
SpecHeartbeat ==
    /\ InitHeartbeat
    /\ [][NextHeartbeat]_vars
    /\ WF_vars(Elapse)
    /\ WF_vars(heartbeat(1))

Stale == pings.executing # Absent /\ pings.age > PING_TIMEOUT

\* C32: when the driver process has ended without its teardown and has
\* left an executing ping, the ping eventually is older than PING_TIMEOUT
\* (the heartbeat worker stops touching it).
C32_StaleAfterKill ==
    (drv[1].pc = "killed" /\ pings.executing = 1) ~> Stale

\* ================================================= _BREAK and dependants
\* One child step and its parents. step[q] is the parent q: its options,
\* the run ids its declare_runs() declares, and its _runs ({}: None).
ParentSteps ==
    [options : [BREAK : BOOLEAN],
     declares : {{}, DeclaredRunIds},
     runs : {{}}]

\* what get_runs() of a step returns (lines 399-434): the cached runs,
\* nothing under _BREAK, otherwise the runs declared now
get_runs_result(p) ==
    IF p.runs # {} THEN p.runs
    ELSE IF BreakSet(p.options) THEN {} ELSE p.declares

\* self._runs after the call
get_runs_cache(p) ==
    IF p.runs # {} \/ BreakSet(p.options) THEN p.runs ELSE p.declares

\* the pipeline materialises the steps in topological order: parent q
\* first; "not parent.get_runs()" at line 1181 sees the same result
parent_get_runs(q) ==
    /\ call.result = "none"
    /\ q \in call.pending
    /\ step' = [step EXCEPT ![q].runs = get_runs_cache(step[q])]
    /\ resolver' = [resolver EXCEPT
                      !.parent_runs[q] = get_runs_result(step[q]) # {}]
    /\ call' = [call EXCEPT !.pending = @ \ {q}]
    /\ UNCHANGED <<step_runs, pipeline, options>>
    /\ UNCHANGED runVars

\* get_runs() of the child up to the call of declare_runs()
child_get_runs ==
    /\ call.result = "none"
    /\ call.pending = {}
    /\ IF BreakSet(options)
       THEN /\ call' = [call EXCEPT !.result = "returned"]
            /\ UNCHANGED resolver
       ELSE /\ call' = [call EXCEPT !.result = "declaring"]
            /\ resolver' = [resolver EXCEPT !.pc = "connect_keys"]
    /\ UNCHANGED <<step_runs, pipeline, options, step>>
    /\ UNCHANGED runVars

\* self.runs(cc): the connections were resolved, the child declares runs
child_declare ==
    /\ call.result = "declaring"
    /\ resolver.pc = "returned"
    /\ \E ids \in SUBSET DeclaredRunIds :
         step_runs' = [k \in ids |-> [run_id |-> k, declared_as |-> k,
                                      output_files |-> {}]]
    /\ call' = [call EXCEPT !.result = "returned"]
    /\ UNCHANGED <<pipeline, resolver, options, step>>
    /\ UNCHANGED runVars

\* the UAPError of the resolver leaves declare_runs() and get_runs()
child_raise ==
    /\ call.result = "declaring"
    /\ resolver.pc = "raised"
    /\ call' = [call EXCEPT !.result = "UAPError"]
    /\ UNCHANGED <<step_runs, pipeline, resolver, options, step>>
    /\ UNCHANGED runVars

InitBreak ==
    /\ IdleRun
    /\ step_runs = NoRuns
    /\ pipeline = NoPipeline
    /\ step \in [Parents -> ParentSteps]
    /\ \E b \in BOOLEAN,
          cm \in {NoRuns, ("a" :> {<<"P1", "a">>})} :
         options = [BREAK |-> b, connect |-> cm]
    /\ \E deps \in DependencyLists, req \in SUBSET ConnNames,
          po \in [Parents -> SUBSET ConnNames] :
         /\ resolver = [pc |-> "idle", deps |-> deps, i |-> 1,
                        in_required |-> req, in_optional |-> {},
                        parent_out |-> po,
                        parent_runs |-> [q \in Parents |-> FALSE],
                        set_out_connections |-> {},
                        used_out_connections |-> {},
                        existing_connections |-> {},
                        bound_by |-> [q \in Parents |-> "none"],
                        warned_empty |-> FALSE, warned_missing |-> FALSE,
                        error |-> "none"]
         /\ call = [NoCall EXCEPT !.pending = Range(deps)]

NextBreak ==
    \/ \E q \in Parents : parent_get_runs(q)
    \/ child_get_runs
    \/ child_declare
    \/ child_raise
    \/ CheckConnectKeys
    \/ DiscardEmpty
    \/ ConnectParent
    \/ CheckRequired
    \/ CheckUnrecognized

\* a child step is materialised after its parents
SpecBreak == InitBreak /\ [][NextBreak]_vars

BreakParent ==
    \E j \in 1..Len(resolver.deps) : step[resolver.deps[j]].options.BREAK

\* C33: when a parent of the step has _BREAK: true, get_runs() of the
\* step ends without an error and the step has no runs.
C33_BreakPrunesChildren ==
    (BreakParent /\ call.result \in {"returned", "UAPError"}) =>
      (call.result = "returned" /\ DOMAIN step_runs = {})

\* C34: once a get_runs() call has returned, no later get_runs() call
\* enters declare_runs() again, changes the run map or registers anything
\* with the pipeline, whatever number of runs the step has declared.
C34_DeclaredOnce ==
    [][call.result = "returned" =>
         /\ call'.result = "returned"
         /\ step_runs' = step_runs
         /\ pipeline' = pipeline]_vars

\* C35: the step's state is EXECUTING exactly while run() is inside the
\* try statement around execute() (its except and finally blocks
\* included), and DEFAULT at every other position of run(), in particular
\* when run() has returned or raised.
C35_ExecutorState ==
    \A d \in Drivers :
      drv[d].pc # "killed" =>
        /\ drv[d].state \in {"DEFAULT", "EXECUTING"}
        /\ Interrupted(drv[d]) \in ExecPcs => drv[d].state = "EXECUTING"
        /\ drv[d].state = "EXECUTING" =>
             Interrupted(drv[d]) \in ExecPcs \cup {"except"} \cup FinallyPcs

\* C36: when run() has returned or raised, the SIGTERM and SIGINT handlers
\* of the process and its working directory are the ones run() found when
\* it was entered.
C36_HandlersRestored ==
    \A d \in Drivers :
      Finished(d) =>
        /\ drv[d].term_handler = "orig"
        /\ drv[d].int_handler = "orig"
        /\ drv[d].cwd = "base"

\* ========================================== add_dependency and finalize
MaxDependencies == 2    \* entries of one step's dependencies list

StepNames == {"A", "B", "C"}

\* the recursion limit of the interpreter: deeper than finalize() can go
\* on any acyclic graph of these steps
RecursionLimit == Cardinality(StepNames) + 1

\* step.dependencies[s]: self.dependencies of s (a list);
\* step.finalized[s]: self.finalized; call.stack: the active finalize()
\* calls, innermost last, each <<step, index of the next parent>>
InitGraph ==
    /\ IdleRun
    /\ step_runs = NoRuns
    /\ pipeline = NoPipeline
    /\ resolver = [pc |-> "idle"]
    /\ options = NoOptions
    /\ step = [dependencies |-> [s \in StepNames |-> <<>>],
               children_step_names |-> [s \in StepNames |-> {}],
               finalized |-> [s \in StepNames |-> FALSE]]
    /\ call = [result |-> "none", stack |-> <<>>, last |-> "none"]

\* if parent == self: raise UAPError
SelfDependency(s, parent) == parent = s

\* s.add_dependency(parent)
add_dependency(s, parent) ==
    /\ call.result = "none"
    /\ Len(step.dependencies[s]) < MaxDependencies
    /\ IF SelfDependency(s, parent)
       THEN /\ call' = [call EXCEPT !.last = "UAPError"]
            /\ UNCHANGED step
       ELSE /\ step' = [step EXCEPT
                          !.dependencies[s] = Append(@, parent),
                          !.children_step_names[parent] = @ \cup {s}]
            /\ call' = [call EXCEPT !.last = "ok"]
    /\ UNCHANGED <<step_runs, pipeline, resolver, options>>
    /\ UNCHANGED runVars

\* s.finalize() is called from outside
finalize(s) ==
    /\ call.result \in {"none", "returned"}
    /\ call' = [call EXCEPT !.result = "finalizing", !.stack = <<<<s, 0>>>>]
    /\ UNCHANGED <<step_runs, pipeline, resolver, options, step>>
    /\ UNCHANGED runVars

Pop(stack) == SubSeq(stack, 1, Len(stack) - 1)

\* one statement of the innermost finalize() call
finalize_step ==
    /\ call.result = "finalizing"
    /\ LET n == Len(call.stack)
           s == call.stack[n][1]
           i == call.stack[n][2]
           back == IF n = 1 THEN "returned" ELSE "finalizing"
       IN
       IF i = 0
       THEN IF step.finalized[s]
            THEN /\ call' = [call EXCEPT !.stack = Pop(@), !.result = back]
                 /\ UNCHANGED step
            ELSE /\ call' = [call EXCEPT !.stack[n] = <<s, 1>>]
                 /\ UNCHANGED step
       ELSE IF i <= Len(step.dependencies[s])
       THEN IF n < RecursionLimit
            THEN /\ call' = [call EXCEPT
                               !.stack = Append([@ EXCEPT ![n] = <<s, i + 1>>],
                                                <<step.dependencies[s][i], 0>>)]
                 /\ UNCHANGED step
            ELSE /\ call' = [call EXCEPT !.stack = <<>>,
                                         !.result = "RecursionError"]
                 /\ UNCHANGED step
       ELSE /\ step' = [step EXCEPT !.finalized[s] = TRUE]
            /\ call' = [call EXCEPT !.stack = Pop(@), !.result = back]
    /\ UNCHANGED <<step_runs, pipeline, resolver, options>>
    /\ UNCHANGED runVars

NextGraph ==
    \/ \E s \in StepNames, parent \in StepNames : add_dependency(s, parent)
    \/ \E s \in StepNames : finalize(s)
    \/ finalize_step

\* dependencies are added between the steps, then steps are finalized
SpecGraph == InitGraph /\ [][NextGraph]_vars

DependsOn(s) == Range(step.dependencies[s])

RECURSIVE Ancestors(_, _)
Ancestors(S, k) ==
    IF k = 0 THEN S
    ELSE Ancestors(S \cup UNION {DependsOn(s) : s \in S}, k - 1)

\* the steps reachable from s through one or more dependencies
Reachable(s) == Ancestors(DependsOn(s), Cardinality(StepNames))

\* C37: after any successful add_dependency calls no step is reachable from
\* itself through dependencies, and finalize() never exceeds the recursion
\* limit: when it has returned, the step it was called on and all steps
\* reachable from it are finalized.
C37_AcyclicDependencies ==
    /\ \A s \in StepNames : s \notin Reachable(s)
    /\ call.result # "RecursionError"
    /\ \A s \in StepNames :
         step.finalized[s] => \A q \in Reachable(s) : step.finalized[q]

\* the configuration gave the key a value that is not null (a list: with
\* at least one element that is not null)
SuppliedInConfig(key) ==
    /\ key \in DOMAIN call.given
    /\ IF type(call.given[key]) = "list"
       THEN \E i \in DOMAIN call.given[key][2] : call.given[key][2][i] # None
       ELSE call.given[key] # None

\* C38: is_option_set_in_config(key), called after set_options, raises for
\* a key the step has not declared, and for a declared key returns true
\* exactly when the configuration supplied a non-null value for it.
C38_SetInConfig ==
    call.query # <<>> =>
      LET key == call.query[1]
          out == call.query[2]
      IN IF key \notin DOMAIN step.defined_options THEN out = "UAPError"
         ELSE out = (IF SuppliedInConfig(key) THEN "True" ELSE "False")

\* =============================================================== FSCache
\* files[p]: the file at path p ("none": no such file, else its content);
\* step.cache: FSCache.cache, name -> (arguments -> result);
\* call: the last call and what an observer of all calls remembers.
CachePaths == {"p1", "p2"}
FileStates == {"none", "c1"}
OsPathMethods == {"exists", "getsize"}
NoValue == <<"NoneType", "None">>
GivenSums == {<<"sha", "v">>}

Raises(out) == out[1] = "raise"

\* getattr(os.path, name)(path)
os_path_call(name, content) ==
    IF name = "exists"
    THEN <<"bool", IF content = "none" THEN "False" ELSE "True">>
    ELSE IF content = "none" THEN <<"raise", "OSError">>
         ELSE <<"int", content>>

\* open(path, 'r'); yaml.load(f)
yaml_load(content) ==
    IF content = "none" THEN <<"raise", "IOError">> ELSE <<"yaml", content>>

\* misc.sha256sum_of(path)
misc_sha256sum_of(content) ==
    IF content = "none" THEN <<"raise", "IOError">> ELSE <<"sha", content>>

\* if name not in self.cache: self.cache[name] = dict()
ensure(cache, name) ==
    IF name \in DOMAIN cache THEN cache ELSE (name :> NoRuns) @@ cache

cached_never(cache, name, args) == FALSE

\* name in self.cache and args in self.cache[name]
cached(cache, name, args) ==
    name \in DOMAIN cache /\ args \in DOMAIN cache[name]

\* self.cache[name][args] = result
cache_store(cache, name, args, result) ==
    LET c == ensure(cache, name) IN
    (name :> ((args :> result) @@ c[name])) @@ c

Unknown == <<"unknown", "unknown">>
NoLast == [kind |-> "none"]
Remembered(m, key) == IF key \in DOMAIN m THEN m[key] ELSE Unknown

\* the observer: first[key] is the first successful result of a call with
\* these arguments since the last clear(); memo[key] is in addition
\* replaced by a checksum handed in with value=
Observed(key, out, touched, fresh) ==
    [last |-> [kind |-> "query", key |-> key, out |-> out,
               touched |-> touched, fresh |-> fresh,
               known |-> Remembered(call.memo, key),
               first |-> Remembered(call.first, key)],
     memo |-> IF key \in DOMAIN call.memo \/ Raises(fresh) THEN call.memo
              ELSE (key :> fresh) @@ call.memo,
     first |-> IF key \in DOMAIN call.first \/ Raises(fresh) THEN call.first
               ELSE (key :> fresh) @@ call.first]

\* fsc.<name>(path) for a method of os.path: FSCache.__getattr__
os_path(name, p) ==
    LET args == <<p>>
        hit == cached(step.cache, name, args)
        fresh == os_path_call(name, files[p])
    IN
    /\ name \in OsPathMethods
    /\ step' = IF hit \/ Raises(fresh) THEN step
               ELSE [step EXCEPT
                       !.cache = cache_store(@, name, args, fresh)]
    /\ call' = Observed(<<name, p>>,
                        IF hit THEN step.cache[name][args] ELSE fresh,
                        ~hit, fresh)
    /\ UNCHANGED <<cfg, pings, files, drv>>
    /\ UNCHANGED <<step_runs, pipeline, resolver, options>>

\* fsc.load_yaml_from_file(path)
load_yaml_from_file(p) ==
    LET name == "load_yaml_from_file"
        c == ensure(step.cache, name)
        hit == cached(c, name, p)
        fresh == yaml_load(files[p])
    IN
    /\ step' = [step EXCEPT
                  !.cache = IF hit \/ Raises(fresh) THEN c
                            ELSE cache_store(c, name, p, fresh)]
    /\ call' = Observed(<<name, p>>, IF hit THEN c[name][p] ELSE fresh,
                        ~hit, fresh)
    /\ UNCHANGED <<cfg, pings, files, drv>>
    /\ UNCHANGED <<step_runs, pipeline, resolver, options>>

\* fsc.sha256sum_of(path, value)
sha256sum_of(p, value) ==
    LET name == "sha256sums"
        key == <<"sha256sum_of", p>>
        c == ensure(step.cache, name)
        hit == cached(c, name, p)
        fresh == misc_sha256sum_of(files[p])
    IN
    /\ IF value # NoValue
       THEN /\ step' = [step EXCEPT
                          !.cache = cache_store(c, name, p, value)]
            /\ call' = [last |-> [kind |-> "store", key |-> key,
                                  out |-> value, value |-> value],
                        memo |-> (key :> value) @@ call.memo,
                        first |-> IF key \in DOMAIN call.first
                                  THEN call.first
                                  ELSE (key :> value) @@ call.first]
       ELSE /\ step' = [step EXCEPT
                          !.cache = IF hit \/ Raises(fresh) THEN c
                                    ELSE cache_store(c, name, p, fresh)]
            /\ call' = Observed(key, IF hit THEN c[name][p] ELSE fresh,
                                ~hit, fresh)
    /\ UNCHANGED <<cfg, pings, files, drv>>
    /\ UNCHANGED <<step_runs, pipeline, resolver, options>>

\* fsc.clear()
clear ==
    /\ step' = [step EXCEPT !.cache = NoRuns]
    /\ call' = [last |-> [kind |-> "clear"], memo |-> NoRuns,
                first |-> NoRuns]
    /\ UNCHANGED <<cfg, pings, files, drv>>
    /\ UNCHANGED <<step_runs, pipeline, resolver, options>>

\* somebody creates or removes the file at p
fs_change(p) ==
    /\ files' = [files EXCEPT ![p] = IF @ = "none" THEN "c1" ELSE "none"]
    /\ UNCHANGED <<cfg, pings, drv>>
    /\ UNCHANGED buildVars

InitCache ==
    /\ cfg = [output_files |-> [o \in Outputs |-> "none"],
              debugging |-> FALSE, queued0 |-> FALSE,
              stamp |-> [d \in Drivers |-> d]]
    /\ pings = InitPings(FALSE, Absent)
    /\ drv = [d \in Drivers |-> OffDriver]
    /\ files \in [CachePaths -> FileStates]
    /\ step_runs = NoRuns
    /\ pipeline = NoPipeline
    /\ resolver = [pc |-> "idle"]
    /\ options = NoOptions
    /\ step = [cache |-> NoRuns]
    /\ call = [last |-> NoLast, memo |-> NoRuns, first |-> NoRuns]

NextCache ==
    \/ \E name \in OsPathMethods, p \in CachePaths : os_path(name, p)
    \/ \E p \in CachePaths : load_yaml_from_file(p)
    \/ \E p \in CachePaths, value \in GivenSums \cup {NoValue} :
         sha256sum_of(p, value)
    \/ clear
    \/ \E p \in CachePaths : fs_change(p)

\* one FSCache, used while the files change underneath
SpecCache == InitCache /\ [][NextCache]_vars

\* C39 (as stated): a call returns the result of the first successful
\* call with the same arguments since the last clear(), without touching
\* the file system; with no such call it is evaluated on the file system;
\* sha256sum_of(path, value=v) returns v.
C39_FirstResult ==
    /\ call.last.kind = "store" => call.last.out = call.last.value
    /\ call.last.kind = "query" =>
         IF call.last.first # Unknown
         THEN call.last.out = call.last.first /\ ~call.last.touched
         ELSE call.last.out = call.last.fresh /\ call.last.touched

\* C39 (amended): a call returns what is remembered for its arguments,
\* without touching the file system: the result of the first successful
\* call since the last clear() or, for sha256sum_of, the checksum handed
\* in last with value= since then; with nothing remembered it is
\* evaluated on the file system; sha256sum_of(path, value=v) returns v.
C39_Memoised ==
    /\ call.last.kind = "store" => call.last.out = call.last.value
    /\ call.last.kind = "query" =>
         IF call.last.known # Unknown
         THEN call.last.out = call.last.known /\ ~call.last.touched
         ELSE call.last.out = call.last.fresh /\ call.last.touched

\* a cached answer that the file system would no longer give
C39_StaleAnswerServed ==
    /\ call.last.kind = "query"
    /\ call.last.known # Unknown
    /\ call.last.out # call.last.fresh
    /\ call.last.key[1] = "load_yaml_from_file"

\* ======================================================= raw_url_source
\* One run of raw_url_source. cfg: the entry of run-download-info;
\* step_runs: the run as runs() declares it; call: execute() and run();
\* files: the downloaded temporary file (and whether its content has the
\* configured secure hash), the output file in the temp directory, and
\* the output file in the output directory.
Commands == {"curl", "compare_secure_hashes", "cp", "pigz", "dd"}

url_exec_groups_copy_first(downloads) ==
    <<<<"curl">>>>
      \o << IF downloads.uncompress THEN <<"pigz", "dd">> ELSE <<"cp">> >>
      \o (IF downloads.hashing THEN <<<<"compare_secure_hashes">>>>
          ELSE <<>>)

\* the exec groups in the order of the run.new_exec_group() calls
url_exec_groups(downloads) ==
    <<<<"curl">>>>
      \o (IF downloads.hashing THEN <<<<"compare_secure_hashes">>>>
          ELSE <<>>)
      \o << IF downloads.uncompress THEN <<"pigz", "dd">> ELSE <<"cp">> >>

InitUrl ==
    /\ \E h \in BOOLEAN, u \in BOOLEAN :
         cfg = [hashing |-> h, uncompress |-> u]
    /\ pings = InitPings(TRUE, Absent)
    /\ drv = [d \in Drivers |-> OffDriver]
    /\ files = [temp_file |-> FALSE, hash_matches |-> FALSE,
                out_in_temp |-> FALSE, published |-> FALSE]
    /\ step_runs = NoRuns
    /\ pipeline = NoPipeline
    /\ resolver = [pc |-> "idle"]
    /\ options = NoOptions
    /\ step = NoStep
    /\ call = [pc |-> "declare", grp |-> 0, live |-> {}, failed |-> FALSE,
               status |-> [c \in Commands |-> "none"], outcome |-> "none"]

\* RawUrlSource.runs: with self.declare_run(files) as run: ...
url_runs ==
    /\ call.pc = "declare"
    /\ step_runs' = [exec_groups |-> url_exec_groups(cfg),
                     output_files |-> {"raw"}]
    /\ call' = [call EXCEPT !.pc = "launch", !.grp = 1]
    /\ UNCHANGED <<pipeline, resolver, options, step>>
    /\ UNCHANGED runVars

\* execute(): the pool of group grp is entered, its members are launched
url_launch ==
    /\ call.pc = "launch"
    /\ LET members == Range(step_runs.exec_groups[call.grp]) IN
       call' = [call EXCEPT
                  !.pc = "wait", !.live = members,
                  !.status = [c \in Commands |->
                                IF c \in members THEN "launched" ELSE @[c]]]
    /\ UNCHANGED <<step_runs, pipeline, resolver, options, step>>
    /\ UNCHANGED runVars

\* a command of the pool ends: what it has done to the files
url_proc_exit(c) ==
    /\ call.pc = "wait"
    /\ c \in call.live
    /\ \E ok \in BOOLEAN, wrote \in BOOLEAN, good \in BOOLEAN :
         /\ c = "curl" => (ok => wrote) /\ (good => wrote)
         /\ c = "compare_secure_hashes" =>
              /\ ok = (files.temp_file /\ files.hash_matches)
              /\ ~wrote /\ ~good
         /\ c \in {"cp", "pigz"} =>
              /\ ok => files.temp_file
              /\ (c = "pigz" => ~wrote) /\ (ok /\ c = "cp" => wrote)
              /\ ~good
         /\ c = "dd" => (ok => wrote) /\ ~good
         /\ files' =
              IF c = "curl"
              THEN [files EXCEPT !.temp_file = wrote, !.hash_matches = good]
              ELSE IF c \in {"cp", "dd"}
              THEN [files EXCEPT !.out_in_temp = @ \/ wrote]
              ELSE files
         /\ call' = [call EXCEPT
                       !.live = @ \ {c},
                       !.failed = @ \/ ~ok,
                       !.status[c] = IF ok THEN "ok" ELSE "failed"]
    /\ UNCHANGED <<cfg, pings, drv>>
    /\ UNCHANGED <<step_runs, pipeline, resolver, options, step>>

\* the pool is left: a failed member raises, else the next group follows
url_pool_exit ==
    /\ call.pc = "wait"
    /\ PoolClosed(call)
    /\ call' = IF call.failed THEN [call EXCEPT !.pc = "finish"]
               ELSE IF call.grp < Len(step_runs.exec_groups)
               THEN [call EXCEPT !.pc = "launch", !.grp = @ + 1]
               ELSE [call EXCEPT !.pc = "finish"]
    /\ UNCHANGED <<step_runs, pipeline, resolver, options, step>>
    /\ UNCHANGED runVars

\* run() after execute(): integrity check, hashing and rename of the
\* output, unless execution raised
url_finish ==
    /\ call.pc = "finish"
    /\ IF ~call.failed /\ files.out_in_temp
       THEN /\ files' = [files EXCEPT !.out_in_temp = FALSE,
                                      !.published = TRUE]
            /\ call' = [call EXCEPT !.pc = "done", !.outcome = "published"]
       ELSE /\ call' = [call EXCEPT !.pc = "done", !.outcome = "failed"]
            /\ UNCHANGED files
    /\ UNCHANGED <<cfg, pings, drv>>
    /\ UNCHANGED <<step_runs, pipeline, resolver, options, step>>

NextUrl ==
    \/ url_runs
    \/ url_launch
    \/ \E c \in Commands : url_proc_exit(c)
    \/ url_pool_exit
    \/ url_finish

\* a raw_url_source run is declared and executed
SpecUrl == InitUrl /\ [][NextUrl]_vars

CopyCommands == {"cp", "pigz", "dd"}

\* C40: with hashing-algorithm and secure-hash configured the exec groups
\* are download, hash comparison, copy; no copy command is launched and
\* the output file is not written before the comparison has ended
\* successfully, and after a failed comparison the output is not published.
C40_HashBeforeCopy ==
    (cfg.hashing /\ call.pc # "declare") =>
      /\ Len(step_runs.exec_groups) = 3
      /\ step_runs.exec_groups[1] = <<"curl">>
      /\ step_runs.exec_groups[2] = <<"compare_secure_hashes">>
      /\ Range(step_runs.exec_groups[3]) \subseteq CopyCommands
      /\ (files.out_in_temp \/ files.published) =>
           call.status["compare_secure_hashes"] = "ok"
      /\ \A c \in CopyCommands :
           call.status[c] # "none" =>
             /\ call.status["curl"] = "ok"
             /\ call.status["compare_secure_hashes"] = "ok"
      /\ call.status["compare_secure_hashes"] = "failed" =>
           /\ call.outcome # "published"
           /\ ~files.published

C40_ComparisonFailedAfterDownload ==
    /\ cfg.hashing
    /\ call.pc = "done"
    /\ call.status["curl"] = "ok"
    /\ call.status["compare_secure_hashes"] = "failed"
    /\ call.outcome = "failed"

====
